---- MODULE Spec2Model ----
(***************************************************************************)
(* Model of the admin backend of telebot-fyp (src/app.js).                 *)
(*                                                                         *)
(* The server is one Node.js process with one MySQL connection             *)
(* (mysql.createConnection): every db.query is appended to the             *)
(* connection's command queue and the queries run one at a time, in the    *)
(* order they were issued.  A step of the model is "the query at the head  *)
(* of the queue runs against the tables and its callback runs to           *)
(* completion"; the callback may answer the request and may issue further  *)
(* queries.  Requests of different clients interleave at this granularity. *)
(*                                                                         *)
(* src/app.js holds two generations of the route handlers: the first       *)
(* (lines 1-1089), whose names end in V1 here, and the second (lines       *)
(* 1091-2475), whose names end in V2.                                      *)
(***************************************************************************)
EXTENDS Integers, Sequences, FiniteSets, TLC

VARIABLES
    products,               \* table products: id -> row
    product_images,         \* table product_images: id -> row
    inventory_adjustments,  \* table inventory_adjustments, in insertion order
    files,                  \* the files present in public/uploads
    nextProductId,          \* AUTO_INCREMENT of products
    nextImageId,            \* AUTO_INCREMENT of product_images
    categories,             \* table categories: id -> row
    nextCategoryId,         \* AUTO_INCREMENT of categories
    admin_users,            \* table admin_users: id -> row
    sessions,               \* the session store: session id -> session.admin
    discountsPage,          \* the discounts page open in a browser
    now,                    \* Date.now()
    reqs,                   \* the HTTP requests: id -> request record
    queue                   \* the connection's command queue: <<request, query>>

vars == <<products, product_images, inventory_adjustments, files,
          nextProductId, nextImageId, categories, nextCategoryId,
          admin_users, sessions, discountsPage, now, reqs, queue>>

\* The tables, the uploaded files and the session store
db == <<products, product_images, inventory_adjustments, files,
        nextProductId, nextImageId, categories, nextCategoryId,
        admin_users, sessions>>

-----------------------------------------------------------------------------
(* Bounds of the model *)

MaxReqs == 2        \* requests in one behaviour
MaxClock == 6       \* Date.now() takes the values 0..MaxClock
MaxDiscounts == 11  \* discounts on the server
MaxPage == 3        \* currentPage stays within -MaxPage..MaxPage

ReqIds == 1..MaxReqs

-----------------------------------------------------------------------------
(* Values submitted in a request body.  A field is absent or empty         *)
(* ("missing"), a string that is no number ("nan") or a number.            *)

Num(n) == [k |-> "num", v |-> n]
Missing == [k |-> "missing", v |-> 0]
NotANumber == [k |-> "nan", v |-> 0]

IsNum(x) == x.k = "num"

\* An image URL is '/uploads/' + filename; a file name is <<stamp, random>>.
Url(filename) == [dir |-> "/uploads/", file |-> filename]
Null == [dir |-> "", file |-> << >>]

\* path.join(__dirname, 'public', url without its leading '/'): the file of
\* public/uploads the URL names.
FilePath(url) == url.file

Range(s) == {s[i] : i \in DOMAIN s}

\* Column defaults of the products table for columns an INSERT leaves out.
InitialWarehouseAllocation == 15000

ColumnDefault ==
    [stock |-> 0, telegram_stock |-> 0,
     warehouse_stock |-> InitialWarehouseAllocation,
     quantity |-> 0, image_url |-> Null, is_active |-> 1]

\* Values of Math.round(Math.random() * 1e9)
Randoms == {0, 1}

-----------------------------------------------------------------------------
(* Requests *)

Snapshot == [products |-> products, product_images |-> product_images,
             files |-> files, adjustments |-> inventory_adjustments]

NoSnapshot == [products |-> << >>, product_images |-> << >>,
               files |-> {}, adjustments |-> << >>]

\* A request: its route (op), its state (st: idle, running, done once it is
\* answered, crashed if its callback threw, lost if the process died under
\* it), its body (in), the locals of its callbacks (loc) and its answer
\* (resp).  For the properties it also keeps the tables as they were when it
\* arrived (pre), whether the connection was idle then (quiet), and the
\* queries of it that failed (errors).
Idle == [op |-> "none", st |-> "idle", in |-> << >>, loc |-> << >>,
         resp |-> "none", pre |-> NoSnapshot, quiet |-> FALSE, errors |-> {}]

\* A request arrives: the next unused request slot is taken.
CanArrive(r) ==
    /\ reqs[r].st = "idle"
    /\ \A q \in ReqIds : q < r => reqs[q].st # "idle"

NewReq(op, in, loc) ==
    [op |-> op, st |-> "running", in |-> in, loc |-> loc,
     resp |-> "none", pre |-> Snapshot, quiet |-> (queue = << >>),
     errors |-> {}]

Respond(rec, resp) == [rec EXCEPT !.st = "done", !.resp = resp]

\* The query at the head of the command queue
AtHead(r, q) == queue # << >> /\ Head(queue) = <<r, q>>

Answered(r) == reqs[r].st = "done"

-----------------------------------------------------------------------------
\* bcrypt.hash(password, 10), and bcrypt.compare(password, hash)
Hash(password) == [bcrypt |-> password]

Compare(password, hash) == hash = Hash(password)

\* The administrators: an active one and a deactivated one
AdminUsers ==
    <<[name |-> "u", email |-> "x", password_hash |-> Hash("p"),
       is_active |-> 1],
      [name |-> "u", email |-> "y", password_hash |-> Hash("p"),
       is_active |-> 0]>>

SessionIds == {1, 2}

\* session.admin of a session nobody has logged in to
NoAdmin == 0

NoSessions == [sid \in SessionIds |-> NoAdmin]

\* const pageSize = 10
pageSize == 10

\* The script of the discounts page before DOMContentLoaded: the server's
\* list has `server` entries, `discounts` is the length of the script's
\* list, `rows` the number of rows in the table; the buttons are as the
\* markup leaves them and have no click handlers yet (bound), and neither
\* has the form (open).
NewPage(server) ==
    [server |-> server, discounts |-> 0, currentPage |-> 1, rows |-> 0,
     prevDisabled |-> FALSE, nextDisabled |-> FALSE, bound |-> FALSE,
     open |-> FALSE]

ClosedPage == NewPage(0)

\* The categories the product forms offer
CatalogCategories ==
    <<[name |-> "c", is_active |-> 1], [name |-> "Ab", is_active |-> 0]>>

Init ==
    /\ products = << >>
    /\ product_images = << >>
    /\ inventory_adjustments = << >>
    /\ files = {}
    /\ nextProductId = 1
    /\ nextImageId = 1
    /\ categories = CatalogCategories
    /\ nextCategoryId = Len(CatalogCategories) + 1
    /\ admin_users = AdminUsers
    /\ sessions = NoSessions
    /\ discountsPage = ClosedPage
    /\ now = 0
    /\ reqs = [r \in ReqIds |-> Idle]
    /\ queue = << >>

-----------------------------------------------------------------------------
(* Tables *)

Insert(table, id, row) == [i \in DOMAIN table \cup {id} |->
                              IF i = id THEN row ELSE table[i]]

Delete(table, ids) == [i \in DOMAIN table \ ids |-> table[i]]

\* The image rows of a product in a table
ImagesOf(table, productId) ==
    {i \in DOMAIN table : table[i].product_id = productId}

Pop == Tail(queue)

Issue(q, r, query) == Append(q, <<r, query>>)

SetReq(r, rec) == reqs' = [reqs EXCEPT ![r] = rec]

\* An exception thrown inside a query callback is caught by nobody: the
\* process dies.  The throwing request and every request still waiting get no
\* answer, and the commands still queued in the process are never sent.
CrashedReqs(r) ==
    [q \in ReqIds |->
        IF q = r THEN [reqs[q] EXCEPT !.st = "crashed"]
        ELSE IF reqs[q].st = "running" THEN [reqs[q] EXCEPT !.st = "lost"]
        ELSE reqs[q]]

-----------------------------------------------------------------------------
(* POST /admin/inventory/update-stock (first generation) *)

UpdateStockBodies(ids, stocks) == [productId : ids, newStock : stocks]

UpdateStockV1(r, bodies) ==
    /\ CanArrive(r)
    /\ \E body \in bodies :
        /\ IF body.productId = 0 \/ body.newStock = Missing
           THEN /\ SetReq(r, Respond(NewReq("update-stock", body, << >>),
                                     "400 Missing data"))
                /\ UNCHANGED queue
           ELSE /\ SetReq(r, NewReq("update-stock", body, << >>))
                /\ queue' = Issue(queue, r, "SELECT stock")
        /\ UNCHANGED <<db, discountsPage, now>>

UpdateStockV1_Select(r) ==
    /\ AtHead(r, "SELECT stock")
    /\ LET id == reqs[r].in.productId IN
       IF id \notin DOMAIN products
       THEN /\ SetReq(r, Respond(reqs[r], "500 Product not found"))
            /\ queue' = Pop
       ELSE LET oldStock == products[id].stock
                diff == reqs[r].in.newStock.v - oldStock
            IN  /\ SetReq(r, [reqs[r] EXCEPT
                                 !.loc = [oldStock |-> oldStock, diff |-> diff]])
                /\ queue' = Issue(Pop, r, "UPDATE stock")
    /\ UNCHANGED <<db, discountsPage, now>>

SetStock(table, id, stock) ==
    IF id \in DOMAIN table THEN [table EXCEPT ![id].stock = stock] ELSE table

UpdateStockV1_Update(r) ==
    /\ AtHead(r, "UPDATE stock")
    /\ products' = SetStock(products, reqs[r].in.productId, reqs[r].in.newStock.v)
    /\ queue' = Issue(Pop, r, "INSERT adjustment")
    /\ UNCHANGED <<discountsPage, admin_users, sessions, categories,
                   nextCategoryId, product_images, inventory_adjustments,
                   files, nextProductId, nextImageId, now, reqs>>

UpdateStockV1_Log(r) ==
    /\ AtHead(r, "INSERT adjustment")
    /\ inventory_adjustments' =
           Append(inventory_adjustments,
                  [product_id |-> reqs[r].in.productId,
                   change_amount |-> reqs[r].loc.diff])
    /\ SetReq(r, Respond(reqs[r], "success"))
    /\ queue' = Pop
    /\ UNCHANGED <<discountsPage, admin_users, sessions, categories,
                   nextCategoryId, products, product_images, files,
                   nextProductId, nextImageId, now>>

-----------------------------------------------------------------------------
(* POST /admin/inventory/update/:id (second generation) *)

UpdateStockV2Bodies(ids, stocks) == [id : ids, stock : stocks]

StockRejected(stock) ==
    stock = Missing \/ stock = NotANumber \/ (IsNum(stock) /\ stock.v < 0)

UpdateStockV2(r, bodies) ==
    /\ CanArrive(r)
    /\ \E body \in bodies :
        /\ SetReq(r, NewReq("update", body, << >>))
        /\ queue' = Issue(queue, r,
                          IF StockRejected(body.stock)
                          THEN "SELECT for form" ELSE "UPDATE stock v2")
        /\ UNCHANGED <<db, discountsPage, now>>

UpdateStockV2_Rejected(r) ==
    /\ AtHead(r, "SELECT for form")
    /\ SetReq(r, Respond(reqs[r], "Stock must be 0 or more"))
    /\ queue' = Pop
    /\ UNCHANGED <<db, discountsPage, now>>

UpdateStockV2_Update(r) ==
    /\ AtHead(r, "UPDATE stock v2")
    /\ products' = SetStock(products, reqs[r].in.id, reqs[r].in.stock.v)
    /\ SetReq(r, Respond(reqs[r], "redirect /admin/inventory"))
    /\ queue' = Pop
    /\ UNCHANGED <<discountsPage, admin_users, sessions, categories,
                   nextCategoryId, product_images, inventory_adjustments,
                   files, nextProductId, nextImageId, now>>

-----------------------------------------------------------------------------
(* multer.diskStorage: upload.array('images', 10) stores the uploaded files *)
(* before the route handler runs.                                           *)

\* Date.now() is read once per file.  File names are only ever compared, so
\* all that matters is whether the clock has ticked since the last read.
StampSeqs(n) ==
    {s \in [1..n -> now..MaxClock] :
        \A i \in 1..n : s[i] \in {IF i = 1 THEN now ELSE s[i - 1],
                                  (IF i = 1 THEN now ELSE s[i - 1]) + 1}}

\* filename: Date.now() + path.extname(file.originalname)
FilenamesV1(n) ==
    {[i \in 1..n |-> <<s[i], -1>>] : s \in StampSeqs(n)}

\* filename: Date.now() + '-' + Math.round(Math.random() * 1e9) + extname
FilenamesV2(n) ==
    {[i \in 1..n |-> <<s[i], k[i]>>] : s \in StampSeqs(n), k \in [1..n -> Randoms]}

Upload(names) ==
    /\ files' = files \cup Range(names)
    /\ now' = IF names = << >> THEN now ELSE names[Len(names)][1]

\* The answer of a handler that first reloads the categories and then renders
\* the form with an error message.
RenderForm(r) ==
    /\ AtHead(r, "SELECT categories")
    /\ SetReq(r, Respond(reqs[r], reqs[r].loc.error))
    /\ queue' = Pop
    /\ UNCHANGED <<db, discountsPage, now>>

-----------------------------------------------------------------------------
(* POST /admin/addproduct *)

AddProductBodies(names, prices, quantities, categoryIds, counts, covers) ==
    [name : names, price : prices, quantity : quantities,
     category_id : categoryIds, nfiles : counts, coverIndex : covers]

WithFiles(body, names) ==
    [name |-> body.name, price |-> body.price, quantity |-> body.quantity,
     category_id |-> body.category_id, coverIndex |-> body.coverIndex,
     files |-> names]

\* The validation without its test of req.files
AddProductInvalidFields(in) ==
    \/ in.name = ""
    \/ in.price = Missing
    \/ in.quantity = Missing
    \/ in.category_id = 0

\* !name || !price || !quantity || !category_id || !req.files ||
\* req.files.length === 0
AddProductInvalid(in) ==
    \/ in.name = ""
    \/ in.price = Missing
    \/ in.quantity = Missing
    \/ in.category_id = 0
    \/ Len(in.files) = 0

\* SELECT id FROM products WHERE name = ? AND is_active = 1
ActiveWithName(name) ==
    {id \in DOMAIN products :
        products[id].name = name /\ products[id].is_active = 1}

AddProductStart(r, op, in) ==
    IF AddProductInvalid(in)
    THEN /\ SetReq(r, NewReq(op, in,
                 [error |-> "All fields are required and at least one image must be uploaded"]))
         /\ queue' = Issue(queue, r, "SELECT categories")
    ELSE /\ SetReq(r, NewReq(op, in, << >>))
         /\ queue' = Issue(queue, r, "SELECT duplicate name")

AddProductDuplicate(r, next) ==
    IF ActiveWithName(reqs[r].in.name) # {}
    THEN /\ SetReq(r, [reqs[r] EXCEPT
                 !.loc = [error |-> "Product with this name already exists"]])
         /\ queue' = Issue(Pop, r, "SELECT categories")
    ELSE /\ UNCHANGED reqs
         /\ queue' = Issue(Pop, r, next)

ImageRows(table, first, productId, names) ==
    [i \in DOMAIN table \cup (first..(first + Len(names) - 1)) |->
        IF i \in DOMAIN table THEN table[i]
        ELSE [product_id |-> productId, image_url |-> Url(names[i - first + 1])]]

SetCoverUrl(table, id, url) ==
    IF id \in DOMAIN table THEN [table EXCEPT ![id].image_url = url] ELSE table

(* First generation, src/app.js 261-334 *)

AddProductV1(r, bodies) ==
    /\ CanArrive(r)
    /\ \E body \in bodies : \E names \in FilenamesV1(body.nfiles) :
        /\ Upload(names)
        /\ AddProductStart(r, "addproduct V1", WithFiles(body, names))
        /\ UNCHANGED <<discountsPage, admin_users, sessions, categories,
                       nextCategoryId, products, product_images,
                       inventory_adjustments, nextProductId, nextImageId>>

AddProductV1_CheckName(r) ==
    /\ AtHead(r, "SELECT duplicate name")
    /\ reqs[r].op = "addproduct V1"
    /\ AddProductDuplicate(r, "INSERT product")
    /\ UNCHANGED <<db, discountsPage, now>>

\* INSERT INTO products (name, description, price, quantity, category_id)
ProductRowV1(in) ==
    [name |-> in.name, price |-> in.price.v, quantity |-> in.quantity.v,
     category_id |-> in.category_id,
     stock |-> ColumnDefault.stock,
     telegram_stock |-> ColumnDefault.telegram_stock,
     warehouse_stock |-> ColumnDefault.warehouse_stock,
     image_url |-> ColumnDefault.image_url,
     is_active |-> ColumnDefault.is_active]

\* parseInt(req.body.coverIndex) || 0
CoverIndexV1(coverIndex) == IF IsNum(coverIndex) THEN coverIndex.v ELSE 0

AddProductV1_Insert(r) ==
    /\ AtHead(r, "INSERT product")
    /\ products' = Insert(products, nextProductId, ProductRowV1(reqs[r].in))
    /\ nextProductId' = nextProductId + 1
    /\ LET coverIndex == CoverIndexV1(reqs[r].in.coverIndex)
           uploaded == reqs[r].in.files
       IN  IF coverIndex + 1 \in DOMAIN uploaded
           THEN /\ SetReq(r, [reqs[r] EXCEPT
                        !.loc = [productId |-> nextProductId,
                                 coverImageUrl |-> Url(uploaded[coverIndex + 1])]])
                /\ queue' = Issue(Pop, r, "UPDATE cover")
           ELSE \* req.files[coverIndex] is undefined: TypeError
                /\ reqs' = [CrashedReqs(r) EXCEPT
                                ![r].loc = [productId |-> nextProductId]]
                /\ queue' = << >>
    /\ UNCHANGED <<discountsPage, admin_users, sessions, categories,
                   nextCategoryId, product_images, inventory_adjustments,
                   files, nextImageId, now>>

AddProductV1_SetCover(r) ==
    /\ AtHead(r, "UPDATE cover")
    /\ reqs[r].op = "addproduct V1"
    /\ products' = SetCoverUrl(products, reqs[r].loc.productId,
                               reqs[r].loc.coverImageUrl)
    /\ queue' = Issue(Pop, r, "INSERT images")
    /\ UNCHANGED <<discountsPage, admin_users, sessions, categories,
                   nextCategoryId, product_images, inventory_adjustments,
                   files, nextProductId, nextImageId, now, reqs>>

AddProductV1_InsertImages(r) ==
    /\ AtHead(r, "INSERT images")
    /\ product_images' = ImageRows(product_images, nextImageId,
                                   reqs[r].loc.productId, reqs[r].in.files)
    /\ nextImageId' = nextImageId + Len(reqs[r].in.files)
    /\ SetReq(r, Respond(reqs[r], "redirect /admin/products"))
    /\ queue' = Pop
    /\ UNCHANGED <<discountsPage, admin_users, sessions, categories,
                   nextCategoryId, products, inventory_adjustments, files,
                   nextProductId, now>>

(* Second generation, src/app.js 1438-1559 *)

\* INSERT INTO products (name, description, price, telegram_stock,
\* warehouse_stock, stock, category_id, is_active)
ProductRowV2(in) ==
    [name |-> in.name, price |-> in.price.v,
     quantity |-> ColumnDefault.quantity,
     category_id |-> in.category_id,
     stock |-> in.quantity.v,
     telegram_stock |-> in.quantity.v,
     warehouse_stock |-> 0,
     image_url |-> ColumnDefault.image_url,
     is_active |-> 1]

AddProductV2(r, bodies) ==
    /\ CanArrive(r)
    /\ \E body \in bodies : \E names \in FilenamesV2(body.nfiles) :
        /\ Upload(names)
        /\ AddProductStart(r, "addproduct V2", WithFiles(body, names))
        /\ UNCHANGED <<discountsPage, admin_users, sessions, categories,
                       nextCategoryId, products, product_images,
                       inventory_adjustments, nextProductId, nextImageId>>

\* The callback of the duplicate-name query issues the INSERT of the product
\* and then evaluates req.files.map(f => [productId, ...]) where productId is
\* declared only inside the INSERT's callback (line 1524): ReferenceError.
\* The INSERT reaches the server only if the connection was idle when it was
\* issued and the driver wrote it out before the process died.
AddProductV2_CheckName(r) ==
    /\ AtHead(r, "SELECT duplicate name")
    /\ reqs[r].op = "addproduct V2"
    /\ IF ActiveWithName(reqs[r].in.name) # {}
       THEN /\ AddProductDuplicate(r, "INSERT product")
            /\ UNCHANGED <<discountsPage, admin_users, sessions, categories,
                           nextCategoryId, products, nextProductId>>
       ELSE /\ reqs' = CrashedReqs(r)
            /\ queue' = << >>
            /\ \/ UNCHANGED <<discountsPage, admin_users, sessions, categories,
                              nextCategoryId, products, nextProductId>>
               \/ /\ Pop = << >>
                  /\ products' = Insert(products, nextProductId,
                                        ProductRowV2(reqs[r].in))
                  /\ nextProductId' = nextProductId + 1
    /\ UNCHANGED <<discountsPage, admin_users, sessions, categories,
                   nextCategoryId, product_images, inventory_adjustments,
                   files, nextImageId, now>>

-----------------------------------------------------------------------------
(* POST /admin/editproduct/:id *)

\* removedImages is a comma-separated list of image ids (a set here);
\* coverImageId 0 stands for no cover id submitted.
EditProductBodies(ids, names, quantities, removals, counts, covers) ==
    [id : ids, name : names, price : {Num(5)}, quantity : quantities,
     category_id : {1}, removedImages : removals, nfiles : counts,
     coverImageId : covers]

EditWithFiles(body, names) ==
    [id |-> body.id, name |-> body.name, price |-> body.price,
     quantity |-> body.quantity, category_id |-> body.category_id,
     removedImages |-> body.removedImages, coverImageId |-> body.coverImageId,
     files |-> names]

\* SELECT image_url FROM product_images WHERE product_id = ?
\* ORDER BY id ASC LIMIT 1
FirstImageUrl(productId) ==
    LET own == {i \in DOMAIN product_images :
                   product_images[i].product_id = productId}
    IN  IF own = {} THEN Null
        ELSE product_images[CHOOSE i \in own : \A j \in own : i <= j].image_url

(* First generation, src/app.js 378-434 *)

EditProductV1(r, bodies) ==
    /\ CanArrive(r)
    /\ \E body \in bodies : \E names \in FilenamesV1(body.nfiles) :
        /\ Upload(names)
        /\ SetReq(r, NewReq("editproduct V1", EditWithFiles(body, names), << >>))
        /\ queue' = Issue(queue, r, "UPDATE product")
        /\ UNCHANGED <<discountsPage, admin_users, sessions, categories,
                       nextCategoryId, products, product_images,
                       inventory_adjustments, nextProductId, nextImageId>>

\* UPDATE products SET name=?, price=?, quantity=?, category_id=? WHERE id=?
UpdateFieldsV1(table, in) ==
    IF in.id \in DOMAIN table
    THEN [table EXCEPT ![in.id].name = in.name,
                       ![in.id].price = in.price.v,
                       ![in.id].quantity = in.quantity.v,
                       ![in.id].category_id = in.category_id]
    ELSE table

\* The callback of the UPDATE issues the DELETE, the INSERT and the cover
\* query one after the other, without waiting; with no cover id it answers
\* at once, while its queries are still queued.
EditProductV1_Update(r) ==
    /\ AtHead(r, "UPDATE product")
    /\ reqs[r].op = "editproduct V1"
    /\ products' = UpdateFieldsV1(products, reqs[r].in)
    /\ LET in == reqs[r].in
           q1 == IF in.removedImages # {}
                 THEN Issue(Pop, r, "DELETE images") ELSE Pop
           q2 == IF in.files # << >>
                 THEN Issue(q1, r, "INSERT new images") ELSE q1
       IN  IF in.coverImageId # 0
           THEN /\ queue' = Issue(q2, r, "SELECT cover image")
                /\ UNCHANGED reqs
           ELSE /\ queue' = q2
                /\ SetReq(r, Respond(reqs[r], "redirect /admin/products"))
    /\ UNCHANGED <<discountsPage, admin_users, sessions, categories,
                   nextCategoryId, product_images, inventory_adjustments,
                   files, nextProductId, nextImageId, now>>

\* DELETE FROM product_images WHERE id IN (?)
EditProductV1_DeleteImages(r) ==
    /\ AtHead(r, "DELETE images")
    /\ reqs[r].op = "editproduct V1"
    /\ product_images' = Delete(product_images, reqs[r].in.removedImages)
    /\ queue' = Pop
    /\ UNCHANGED <<discountsPage, admin_users, sessions, categories,
                   nextCategoryId, products, inventory_adjustments, files,
                   nextProductId, nextImageId, now, reqs>>

EditProductV1_InsertImages(r) ==
    /\ AtHead(r, "INSERT new images")
    /\ reqs[r].op = "editproduct V1"
    /\ product_images' = ImageRows(product_images, nextImageId,
                                   reqs[r].in.id, reqs[r].in.files)
    /\ nextImageId' = nextImageId + Len(reqs[r].in.files)
    /\ queue' = Pop
    /\ UNCHANGED <<discountsPage, admin_users, sessions, categories,
                   nextCategoryId, products, inventory_adjustments, files,
                   nextProductId, now, reqs>>

\* SELECT image_url FROM product_images WHERE id=?
EditProductV1_SelectCover(r) ==
    /\ AtHead(r, "SELECT cover image")
    /\ reqs[r].op = "editproduct V1"
    /\ LET id == reqs[r].in.coverImageId IN
       IF id \in DOMAIN product_images
       THEN /\ SetReq(r, [reqs[r] EXCEPT
                    !.loc = [coverImageUrl |-> product_images[id].image_url]])
            /\ queue' = Issue(Pop, r, "UPDATE cover")
       ELSE /\ SetReq(r, Respond(reqs[r], "redirect /admin/products"))
            /\ queue' = Pop
    /\ UNCHANGED <<db, discountsPage, now>>

EditProductV1_SetCover(r) ==
    /\ AtHead(r, "UPDATE cover")
    /\ reqs[r].op = "editproduct V1"
    /\ products' = SetCoverUrl(products, reqs[r].in.id, reqs[r].loc.coverImageUrl)
    /\ SetReq(r, Respond(reqs[r], "redirect /admin/products"))
    /\ queue' = Pop
    /\ UNCHANGED <<discountsPage, admin_users, sessions, categories,
                   nextCategoryId, product_images, inventory_adjustments,
                   files, nextProductId, nextImageId, now>>

(* Second generation, src/app.js 1602-1709 *)

EditProductV2(r, bodies) ==
    /\ CanArrive(r)
    /\ \E body \in bodies : \E names \in FilenamesV2(body.nfiles) :
        /\ Upload(names)
        /\ SetReq(r, NewReq("editproduct V2", EditWithFiles(body, names), << >>))
        /\ queue' = Issue(queue, r, "UPDATE product")
        /\ UNCHANGED <<discountsPage, admin_users, sessions, categories,
                       nextCategoryId, products, product_images,
                       inventory_adjustments, nextProductId, nextImageId>>

\* UPDATE products SET name=?, description=?, price=?, quantity=?, stock=?,
\* category_id=? WHERE id=?   with quantity bound to both quantity and stock
UpdateFieldsV2(table, in) ==
    IF in.id \in DOMAIN table
    THEN [table EXCEPT ![in.id].name = in.name,
                       ![in.id].price = in.price.v,
                       ![in.id].quantity = in.quantity.v,
                       ![in.id].stock = in.quantity.v,
                       ![in.id].category_id = in.category_id]
    ELSE table

\* Promise.all([removeImagesPromise, addImagesPromise]).then(...): once both
\* have resolved, the cover query is issued.
CoverQuery(in) ==
    IF in.coverImageId # 0 THEN "SELECT cover image" ELSE "SELECT first image"

AfterPromises(q, r, removeDone, addDone) ==
    IF removeDone /\ addDone THEN Issue(q, r, CoverQuery(reqs[r].in)) ELSE q

EditProductV2_Update(r) ==
    /\ AtHead(r, "UPDATE product")
    /\ reqs[r].op = "editproduct V2"
    /\ products' = UpdateFieldsV2(products, reqs[r].in)
    /\ LET in == reqs[r].in
           removeDone == in.removedImages = {}
           addDone == in.files = << >>
           q1 == IF removeDone THEN Pop
                 ELSE Issue(Pop, r, "SELECT removed images")
           q2 == IF addDone THEN q1 ELSE Issue(q1, r, "INSERT new images")
       IN  /\ SetReq(r, [reqs[r] EXCEPT
                   !.loc = [removeDone |-> removeDone, addDone |-> addDone]])
           /\ queue' = AfterPromises(q2, r, removeDone, addDone)
    /\ UNCHANGED <<discountsPage, admin_users, sessions, categories,
                   nextCategoryId, product_images, inventory_adjustments,
                   files, nextProductId, nextImageId, now>>

\* SELECT id, image_url FROM product_images WHERE id IN (?), then fs.unlink
\* of the file of every row found
RemovedFiles(ids) ==
    {FilePath(product_images[i].image_url) :
        i \in {j \in ids \cap DOMAIN product_images :
                  product_images[j].image_url # Null}}

EditProductV2_SelectRemoved(r) ==
    /\ AtHead(r, "SELECT removed images")
    /\ files' = files \ RemovedFiles(reqs[r].in.removedImages)
    /\ queue' = Issue(Pop, r, "DELETE images")
    /\ UNCHANGED <<discountsPage, admin_users, sessions, categories,
                   nextCategoryId, products, product_images,
                   inventory_adjustments, nextProductId, nextImageId, now,
                   reqs>>

EditProductV2_DeleteImages(r) ==
    /\ AtHead(r, "DELETE images")
    /\ reqs[r].op = "editproduct V2"
    /\ product_images' = Delete(product_images, reqs[r].in.removedImages)
    /\ SetReq(r, [reqs[r] EXCEPT !.loc.removeDone = TRUE])
    /\ queue' = AfterPromises(Pop, r, TRUE, reqs[r].loc.addDone)
    /\ UNCHANGED <<discountsPage, admin_users, sessions, categories,
                   nextCategoryId, products, inventory_adjustments, files,
                   nextProductId, nextImageId, now>>

EditProductV2_InsertImages(r) ==
    /\ AtHead(r, "INSERT new images")
    /\ reqs[r].op = "editproduct V2"
    /\ product_images' = ImageRows(product_images, nextImageId,
                                   reqs[r].in.id, reqs[r].in.files)
    /\ nextImageId' = nextImageId + Len(reqs[r].in.files)
    /\ SetReq(r, [reqs[r] EXCEPT !.loc.addDone = TRUE])
    /\ queue' = AfterPromises(Pop, r, reqs[r].loc.removeDone, TRUE)
    /\ UNCHANGED <<discountsPage, admin_users, sessions, categories,
                   nextCategoryId, products, inventory_adjustments, files,
                   nextProductId, now>>

\* SELECT image_url FROM product_images WHERE id = ? AND product_id = ?
EditProductV2_SelectCover(r) ==
    /\ AtHead(r, "SELECT cover image")
    /\ reqs[r].op = "editproduct V2"
    /\ LET id == reqs[r].in.coverImageId IN
       IF id \in DOMAIN product_images
          /\ product_images[id].product_id = reqs[r].in.id
       THEN /\ SetReq(r, [reqs[r] EXCEPT
                    !.loc = [coverImageUrl |-> product_images[id].image_url]])
            /\ queue' = Issue(Pop, r, "UPDATE cover")
       ELSE /\ UNCHANGED reqs
            /\ queue' = Issue(Pop, r, "SELECT first image")
    /\ UNCHANGED <<db, discountsPage, now>>

EditProductV2_SelectFirst(r) ==
    /\ AtHead(r, "SELECT first image")
    /\ SetReq(r, [reqs[r] EXCEPT
           !.loc = [coverImageUrl |-> FirstImageUrl(reqs[r].in.id)]])
    /\ queue' = Issue(Pop, r, "UPDATE cover")
    /\ UNCHANGED <<db, discountsPage, now>>

EditProductV2_SetCover(r) ==
    /\ AtHead(r, "UPDATE cover")
    /\ reqs[r].op = "editproduct V2"
    /\ products' = SetCoverUrl(products, reqs[r].in.id, reqs[r].loc.coverImageUrl)
    /\ SetReq(r, Respond(reqs[r], "redirect /admin/products"))
    /\ queue' = Pop
    /\ UNCHANGED <<discountsPage, admin_users, sessions, categories,
                   nextCategoryId, product_images, inventory_adjustments,
                   files, nextProductId, nextImageId, now>>

-----------------------------------------------------------------------------
(* A query fails: the tables are unchanged and the callback gets an error. *)

\* if (err3) ... render the form with 'DB error'
AddProductV1_InsertFails(r) ==
    /\ AtHead(r, "INSERT product")
    /\ SetReq(r, [reqs[r] EXCEPT !.loc = [error |-> "DB error"],
                                  !.errors = @ \cup {"INSERT product"}])
    /\ queue' = Issue(Pop, r, "SELECT categories")
    /\ UNCHANGED <<db, discountsPage, now>>

\* if (err) console.error(err); and the images are inserted all the same
AddProductV1_SetCoverFails(r) ==
    /\ AtHead(r, "UPDATE cover")
    /\ reqs[r].op = "addproduct V1"
    /\ SetReq(r, [reqs[r] EXCEPT !.errors = @ \cup {"UPDATE cover"}])
    /\ queue' = Issue(Pop, r, "INSERT images")
    /\ UNCHANGED <<db, discountsPage, now>>

\* if (err) console.error(err); res.redirect('/admin/products')
AddProductV1_InsertImagesFails(r) ==
    /\ AtHead(r, "INSERT images")
    /\ SetReq(r, Respond([reqs[r] EXCEPT !.errors = @ \cup {"INSERT images"}],
                         "redirect /admin/products"))
    /\ queue' = Pop
    /\ UNCHANGED <<db, discountsPage, now>>

\* addImagesPromise resolves whether or not the INSERT succeeded
EditProductV2_InsertImagesFails(r) ==
    /\ AtHead(r, "INSERT new images")
    /\ reqs[r].op = "editproduct V2"
    /\ SetReq(r, [reqs[r] EXCEPT !.loc.addDone = TRUE,
                                  !.errors = @ \cup {"INSERT new images"}])
    /\ queue' = AfterPromises(Pop, r, reqs[r].loc.removeDone, TRUE)
    /\ UNCHANGED <<db, discountsPage, now>>

-----------------------------------------------------------------------------
(* Add-product requests on an empty database *)

CoverIndexes == {Missing, NotANumber, Num(-1), Num(0), Num(1), Num(2)}

\* Bodies with one required field missing
IncompleteBodies ==
    AddProductBodies({""}, {Num(5)}, {Num(2)}, {1}, {1}, {Missing})
    \cup AddProductBodies({"a"}, {Missing}, {Num(2)}, {1}, {1}, {Missing})
    \cup AddProductBodies({"a"}, {Num(5)}, {Missing}, {1}, {1}, {Missing})
    \cup AddProductBodies({"a"}, {Num(5)}, {Num(2)}, {0}, {1}, {Missing})

AddBodiesV1 ==
    AddProductBodies({"a"}, {Num(5)}, {Num(2)}, {1}, 0..2, CoverIndexes)
    \cup AddProductBodies({"b"}, {Num(5)}, {Num(2)}, {1}, {1}, {Missing})
    \cup IncompleteBodies

AddBodiesV2 ==
    AddProductBodies({"a", "b"}, {Num(5)}, {Num(2)}, {1}, 0..1, {Missing, Num(2)})
    \cup AddProductBodies({""}, {Num(5)}, {Num(2)}, {1}, {1}, {Missing})

AddProductStep(r, bodiesV1, bodiesV2) ==
    \/ AddProductV1(r, bodiesV1)
    \/ AddProductV1_CheckName(r)
    \/ AddProductV1_Insert(r)
    \/ AddProductV1_SetCover(r)
    \/ AddProductV1_InsertImages(r)
    \/ AddProductV2(r, bodiesV2)
    \/ AddProductV2_CheckName(r)
    \/ RenderForm(r)

AddProductFault(r) ==
    \/ AddProductV1_InsertFails(r)
    \/ AddProductV1_SetCoverFails(r)
    \/ AddProductV1_InsertImagesFails(r)

NextAddProduct == \E r \in ReqIds : AddProductStep(r, AddBodiesV1, AddBodiesV2)

SpecAddProduct == Init /\ [][NextAddProduct]_vars

\* The steps of add-product requests that are a query answered by the
\* database: the server answers every query the connection has sent, so a
\* query at the head of the command queue does not wait forever.
AddProductQuery(r) ==
    \/ AddProductV1_CheckName(r)
    \/ AddProductV1_Insert(r)
    \/ AddProductV1_SetCover(r)
    \/ AddProductV1_InsertImages(r)
    \/ AddProductV2_CheckName(r)
    \/ RenderForm(r)

SpecAddProductLive ==
    /\ Init
    /\ [][NextAddProduct]_vars
    /\ WF_vars(\E r \in ReqIds : AddProductQuery(r))

NextAddProductFaults ==
    \E r \in ReqIds :
        AddProductStep(r, AddBodiesV1, AddBodiesV2) \/ AddProductFault(r)

SpecAddProductFaults == Init /\ [][NextAddProductFaults]_vars

(* Add-product requests with negative and positive numbers *)

SignedBodies ==
    AddProductBodies({"a"}, {Num(-1), Num(5)}, {Num(-1), Num(2)}, {1}, {1},
                     {Missing})

NextAddProductSigned ==
    \E r \in ReqIds : AddProductStep(r, SignedBodies, SignedBodies)

SpecAddProductSigned == Init /\ [][NextAddProductSigned]_vars

(* Add-product requests with and without images *)

\* Bodies with no image or one, with a name or without
FormBodies ==
    AddProductBodies({"a", "b", ""}, {Num(5)}, {Num(2)}, {1}, 0..1, {Missing})

NextAddProductForm == \E r \in ReqIds : AddProductStep(r, FormBodies, FormBodies)

SpecAddProductForm == Init /\ [][NextAddProductForm]_vars

-----------------------------------------------------------------------------
(* A catalog of two products, as two add-product requests of the first      *)
(* generation leave it: product 1 ("a") with images 1 and 2, the first its  *)
(* cover, and product 2 ("b") with image 3.                                 *)

BodyA ==
    [name |-> "a", price |-> Num(5), quantity |-> Num(2), category_id |-> 1,
     coverIndex |-> Missing, files |-> << <<0, -1>>, <<1, -1>> >>]

BodyB ==
    [name |-> "b", price |-> Num(5), quantity |-> Num(2), category_id |-> 1,
     coverIndex |-> Missing, files |-> << <<2, -1>> >>]

CatalogProducts ==
    Insert(Insert(<< >>, 1, [ProductRowV1(BodyA) EXCEPT
                                !.image_url = Url(BodyA.files[1])]),
           2, [ProductRowV1(BodyB) EXCEPT !.image_url = Url(BodyB.files[1])])

CatalogImages == ImageRows(ImageRows(<< >>, 1, 1, BodyA.files), 3, 2, BodyB.files)

InitCatalog ==
    /\ products = CatalogProducts
    /\ product_images = CatalogImages
    /\ inventory_adjustments = << >>
    /\ files = Range(BodyA.files) \cup Range(BodyB.files)
    /\ nextProductId = 3
    /\ nextImageId = 4
    /\ categories = CatalogCategories
    /\ nextCategoryId = Len(CatalogCategories) + 1
    /\ admin_users = AdminUsers
    /\ sessions = NoSessions
    /\ discountsPage = ClosedPage
    /\ now = 2
    /\ reqs = [r \in ReqIds |-> Idle]
    /\ queue = << >>

(* Edit-product requests on that catalog *)

EditBodies ==
    EditProductBodies({1}, {"a"}, {Num(2)}, {{}, {1}, {1, 2}, {3}}, 0..1, 0..2)

EditProductStep(r, bodies) ==
    \/ EditProductV1(r, bodies)
    \/ EditProductV1_Update(r)
    \/ EditProductV1_DeleteImages(r)
    \/ EditProductV1_InsertImages(r)
    \/ EditProductV1_SelectCover(r)
    \/ EditProductV1_SetCover(r)
    \/ EditProductV2(r, bodies)
    \/ EditProductV2_Update(r)
    \/ EditProductV2_SelectRemoved(r)
    \/ EditProductV2_DeleteImages(r)
    \/ EditProductV2_InsertImages(r)
    \/ EditProductV2_SelectCover(r)
    \/ EditProductV2_SelectFirst(r)
    \/ EditProductV2_SetCover(r)

EditProductFault(r) ==
    \/ EditProductV2_InsertImagesFails(r)

NextEditProduct == \E r \in ReqIds : EditProductStep(r, EditBodies)

SpecEditProduct == InitCatalog /\ [][NextEditProduct]_vars

NextEditProductFaults ==
    \E r \in ReqIds : EditProductStep(r, EditBodies) \/ EditProductFault(r)

SpecEditProductFaults == InitCatalog /\ [][NextEditProductFaults]_vars

(* Stock requests on that catalog *)

StockIds == {1, 3}

NextStock ==
    \E r \in ReqIds :
        \/ UpdateStockV1(r, UpdateStockBodies({0} \cup StockIds,
                              {Missing, Num(-1), Num(0), Num(2), Num(15003)}))
        \/ UpdateStockV1_Select(r)
        \/ UpdateStockV1_Update(r)
        \/ UpdateStockV1_Log(r)
        \/ UpdateStockV2(r, UpdateStockV2Bodies(StockIds,
                              {Missing, NotANumber, Num(-1), Num(0), Num(2), Num(15003)}))
        \/ UpdateStockV2_Rejected(r)
        \/ UpdateStockV2_Update(r)

SpecStock == InitCatalog /\ [][NextStock]_vars

(* Edit-product requests for an id that no product has *)

MissingIdBodies ==
    EditProductBodies({3}, {"a"}, {Num(2)}, {{}, {1}}, 0..1, {0, 1})

NextEditMissing ==
    \E r \in ReqIds : EditProductStep(r, MissingIdBodies)

SpecEditMissing == InitCatalog /\ [][NextEditMissing]_vars

-----------------------------------------------------------------------------
(* GET /admin/check-product-name-edit, src/app.js 455-470 *)

\* SELECT id FROM products WHERE name = ? AND id != ? AND is_active = 1
OthersWithName(name, id) == ActiveWithName(name) \ {id}

CheckProductNameEdit(r, names, ids) ==
    /\ CanArrive(r)
    /\ \E name \in names : \E id \in ids :
        LET rec == NewReq("check-product-name-edit", [name |-> name, id |-> id], << >>)
        IN  IF name = ""
            THEN /\ SetReq(r, Respond(rec, "exists false"))
                 /\ UNCHANGED queue
            ELSE /\ SetReq(r, rec)
                 /\ queue' = Issue(queue, r, "SELECT others with name")
    /\ UNCHANGED <<db, discountsPage, now>>

CheckProductNameEdit_Result(r) ==
    /\ AtHead(r, "SELECT others with name")
    /\ SetReq(r, Respond(reqs[r],
                 IF OthersWithName(reqs[r].in.name, reqs[r].in.id) # {}
                 THEN "exists true" ELSE "exists false"))
    /\ queue' = Pop
    /\ UNCHANGED <<db, discountsPage, now>>

(* Edit-product requests that rename a product of the catalog *)

RenameBodies ==
    EditProductBodies({1, 2}, {"a", "b"}, {Num(2)}, {{}}, {0}, {0})

NextRename ==
    \E r \in ReqIds :
        \/ CheckProductNameEdit(r, {"", "a", "b"}, {1, 2})
        \/ CheckProductNameEdit_Result(r)
        \/ EditProductV1(r, RenameBodies)
        \/ EditProductV1_Update(r)
        \/ EditProductV2(r, RenameBodies)
        \/ EditProductV2_Update(r)
        \/ EditProductV2_SelectFirst(r)
        \/ EditProductV2_SetCover(r)

SpecRename == InitCatalog /\ [][NextRename]_vars

-----------------------------------------------------------------------------
(* GET /admin/products *)

\* const limit = 6
limit == 6

\* The characters of the texts that occur as names and search texts
Chars(text) ==
    CASE text = "" -> << >>
      [] text = " " -> <<" ">>
      [] text = "Ab" -> <<"A", "b">>
      [] text = "ab" -> <<"a", "b">>
      [] text = " ab" -> <<" ", "a", "b">>
      [] OTHER -> <<text>>

\* The collation of the text columns compares letters without their case.
Lower(ch) ==
    CASE ch = "A" -> "a"
      [] ch = "B" -> "b"
      [] ch = "C" -> "c"
      [] OTHER -> ch

\* hay LIKE '%needle%'
Contains(hay, needle) ==
    \E i \in 0..(Len(hay) - Len(needle)) :
        \A j \in 1..Len(needle) : Lower(hay[i + j]) = Lower(needle[j])

Like(text, q) == Contains(Chars(text), Chars(q))

\* (req.query.q || '').trim()
Trim(q) ==
    CASE q = " " -> ""
      [] q = " ab" -> "ab"
      [] OTHER -> q

\* c.name of LEFT JOIN categories c ON p.category_id = c.id
CategoryName(id) ==
    IF id \in DOMAIN categories THEN categories[id].name ELSE ""

\* p.description: every body modelled leaves the description out, which the
\* handlers store as ''
Description(row) == ""

\* WHERE (p.name LIKE ? OR p.description LIKE ? OR c.name LIKE ?)
\*   AND p.category_id = ?      each part only if its parameter is given
Where(row, q, categoryId) ==
    /\ q # "" => \/ Like(row.name, q)
                 \/ Like(Description(row), q)
                 \/ Like(CategoryName(row.category_id), q)
    /\ categoryId # 0 => row.category_id = categoryId

\* The ids of a set as a sequence, smallest first; ids are given in creation
\* order, so this is ORDER BY created_at ASC
RECURSIVE Ascending(_)
Ascending(ids) ==
    IF ids = {} THEN << >>
    ELSE LET i == CHOOSE m \in ids : \A j \in ids : m <= j
         IN  <<i>> \o Ascending(ids \ {i})

Reverse(seq) == [i \in DOMAIN seq |-> seq[Len(seq) + 1 - i]]

\* Math.max(parseInt(req.query.page || '1', 10), 1); the mere parseInt first
PageParsed(page) == IF page = Missing THEN Num(1) ELSE page

PageOf(page) ==
    IF page = Missing THEN Num(1)
    ELSE IF IsNum(page) THEN Num(IF page.v < 1 THEN 1 ELSE page.v)
    ELSE NotANumber

\* Math.max(Math.ceil(total / limit), 1)
TotalPages(total) ==
    LET ceil == (total + limit - 1) \div limit
    IN  IF ceil < 1 THEN 1 ELSE ceil

\* LIMIT ? OFFSET ?
LimitOffset(seq, count, offset) ==
    [i \in 1..(IF Len(seq) - offset < 0 THEN 0
               ELSE IF Len(seq) - offset < count THEN Len(seq) - offset
               ELSE count) |-> seq[offset + i]]

ListQueries(pages, qs, categoryIds) ==
    [page : pages, q : qs, category_id : categoryIds]

(* Second generation, src/app.js 1360-1426 *)

ListProductsV2(r, queries) ==
    /\ CanArrive(r)
    /\ \E query \in queries :
        SetReq(r, NewReq("products V2", query,
                         [page |-> PageOf(query.page), q |-> Trim(query.q),
                          categoryId |-> query.category_id]))
    /\ queue' = Issue(queue, r, "SELECT COUNT products")
    /\ UNCHANGED <<db, discountsPage, now>>

ListProductsV2_Count(r) ==
    /\ AtHead(r, "SELECT COUNT products")
    /\ LET loc == reqs[r].loc
           total == Cardinality({id \in DOMAIN products :
                                    Where(products[id], loc.q, loc.categoryId)})
       IN  SetReq(r, [reqs[r] EXCEPT !.loc =
                [page |-> loc.page, q |-> loc.q, categoryId |-> loc.categoryId,
                 totalPages |-> TotalPages(total)]])
    /\ queue' = Issue(Pop, r, "SELECT products page")
    /\ UNCHANGED <<db, discountsPage, now>>

ListProductsV2_List(r) ==
    /\ AtHead(r, "SELECT products page")
    /\ LET loc == reqs[r].loc
           matching == {id \in DOMAIN products :
                           Where(products[id], loc.q, loc.categoryId)}
       IN  IF ~IsNum(loc.page) \/ (loc.page.v - 1) * limit < 0
           THEN \* OFFSET NaN or a negative OFFSET is an SQL error
                SetReq(r, Respond(reqs[r], "500 Failed to load products"))
           ELSE SetReq(r, Respond([reqs[r] EXCEPT !.loc =
                    [page |-> loc.page, q |-> loc.q,
                     categoryId |-> loc.categoryId,
                     totalPages |-> loc.totalPages,
                     products |-> LimitOffset(Ascending(matching), limit,
                                              (loc.page.v - 1) * limit)]],
                    "render products"))
    /\ queue' = Pop
    /\ UNCHANGED <<db, discountsPage, now>>

(* First generation, src/app.js 223-246 *)

ListProductsV1(r, queries) ==
    /\ CanArrive(r)
    /\ \E query \in queries : SetReq(r, NewReq("products V1", query, << >>))
    /\ queue' = Issue(queue, r, "SELECT products")
    /\ UNCHANGED <<db, discountsPage, now>>

\* ORDER BY p.created_at DESC, with no WHERE and no LIMIT
ListProductsV1_List(r) ==
    /\ AtHead(r, "SELECT products")
    /\ SetReq(r, Respond([reqs[r] EXCEPT !.loc =
            [products |-> Reverse(Ascending(DOMAIN products))]],
            "render products"))
    /\ queue' = Pop
    /\ UNCHANGED <<db, discountsPage, now>>

(* Listings of a catalog of no, one, six or seven products, as add-product *)
(* requests of the first generation leave it                               *)

ListedNames == <<"a", "b", "c", "d", "e", "f", "g">>

ListedBody(i) ==
    [name |-> ListedNames[i], price |-> Num(5), quantity |-> Num(2),
     category_id |-> IF i % 3 = 0 THEN 2 ELSE 1,
     coverIndex |-> Missing, files |-> << <<i - 1, -1>> >>]

ListedProducts(n) ==
    [i \in 1..n |-> [ProductRowV1(ListedBody(i)) EXCEPT
                        !.image_url = Url(ListedBody(i).files[1])]]

InitListing ==
    \E n \in {0, 1, limit, limit + 1} :
        /\ products = ListedProducts(n)
        /\ product_images = [i \in 1..n |->
               ImageRows(<< >>, i, i, ListedBody(i).files)[i]]
        /\ inventory_adjustments = << >>
        /\ files = {ListedBody(i).files[1] : i \in 1..n}
        /\ nextProductId = n + 1
        /\ nextImageId = n + 1
        /\ categories = CatalogCategories
        /\ nextCategoryId = Len(CatalogCategories) + 1
        /\ admin_users = AdminUsers
        /\ sessions = NoSessions
        /\ discountsPage = ClosedPage
        /\ now = n
        /\ reqs = [r \in ReqIds |-> Idle]
        /\ queue = << >>

\* Every kind of page without a filter, pages 0 and 1 with the filters, and a
\* blank search text
ListedQueries ==
    ListQueries({Missing, NotANumber, Num(-1), Num(0), Num(1), Num(2)}, {""}, {0})
    \cup (ListQueries({Num(0), Num(1)}, {"", "B"}, {0, 2}))
    \cup ListQueries({Num(1)}, {" "}, {1})

NextListing ==
    \E r \in ReqIds :
        \/ ListProductsV2(r, ListedQueries)
        \/ ListProductsV2_Count(r)
        \/ ListProductsV2_List(r)
        \/ ListProductsV1(r, ListQueries({Missing}, {"B"}, {0}))
        \/ ListProductsV1_List(r)

SpecListing == InitListing /\ [][NextListing]_vars

-----------------------------------------------------------------------------
(* POST /admin/deleteproduct/:id, src/app.js 473-508 and 1727-1762: the two  *)
(* generations issue the same three queries.                                 *)

DeleteProductV1(r, ids) ==
    /\ CanArrive(r)
    /\ \E id \in ids :
        SetReq(r, NewReq("deleteproduct V1", [id |-> id], << >>))
    /\ queue' = Issue(queue, r, "SELECT images of product")
    /\ UNCHANGED <<db, discountsPage, now>>

DeleteProductV2(r, ids) ==
    /\ CanArrive(r)
    /\ \E id \in ids :
        SetReq(r, NewReq("deleteproduct V2", [id |-> id], << >>))
    /\ queue' = Issue(queue, r, "SELECT images of product")
    /\ UNCHANGED <<db, discountsPage, now>>

\* images.forEach(img => fs.unlink(...)), then the DELETE of the image rows
DeleteProduct_SelectImages(r) ==
    /\ AtHead(r, "SELECT images of product")
    /\ files' = files \ RemovedFiles(ImagesOf(product_images, reqs[r].in.id))
    /\ queue' = Issue(Pop, r, "DELETE images of product")
    /\ UNCHANGED <<discountsPage, admin_users, sessions, categories,
                   nextCategoryId, products, product_images,
                   inventory_adjustments, nextProductId, nextImageId, now,
                   reqs>>

\* DELETE FROM product_images WHERE product_id = ?
DeleteProduct_DeleteImages(r) ==
    /\ AtHead(r, "DELETE images of product")
    /\ product_images' = Delete(product_images,
                                ImagesOf(product_images, reqs[r].in.id))
    /\ queue' = Issue(Pop, r, "DELETE product")
    /\ UNCHANGED <<discountsPage, admin_users, sessions, categories,
                   nextCategoryId, products, inventory_adjustments, files,
                   nextProductId, nextImageId, now, reqs>>

\* DELETE FROM products WHERE id = ?
DeleteProduct_DeleteProduct(r) ==
    /\ AtHead(r, "DELETE product")
    /\ products' = Delete(products, {reqs[r].in.id})
    /\ SetReq(r, Respond(reqs[r], "redirect /admin/products"))
    /\ queue' = Pop
    /\ UNCHANGED <<discountsPage, admin_users, sessions, categories,
                   nextCategoryId, product_images, inventory_adjustments,
                   files, nextProductId, nextImageId, now>>

(* Delete-product and list requests on the catalog *)

NextDelete ==
    \E r \in ReqIds :
        \/ DeleteProductV1(r, {1, 2, 3})
        \/ DeleteProductV2(r, {1, 2, 3})
        \/ DeleteProduct_SelectImages(r)
        \/ DeleteProduct_DeleteImages(r)
        \/ DeleteProduct_DeleteProduct(r)
        \/ ListProductsV2(r, ListQueries({Num(1)}, {""}, {0}))
        \/ ListProductsV2_Count(r)
        \/ ListProductsV2_List(r)
        \/ ListProductsV1(r, ListQueries({Missing}, {""}, {0}))
        \/ ListProductsV1_List(r)

SpecDelete == InitCatalog /\ [][NextDelete]_vars

-----------------------------------------------------------------------------
(* The category handlers (second generation) and deleteCategory *)

\* The bodies of the category forms: is_active is the checkbox, sent or not.
\* A name that was not sent is the empty text.
CategoryBodies(ids, names) ==
    [id : ids, name : names, is_active : {0, 1}]

\* LOWER(text)
LowerText(text) == [i \in DOMAIN Chars(text) |-> Lower(Chars(text)[i])]

\* LOWER(name) = LOWER(?)
SameName(a, b) == LowerText(a) = LowerText(b)

\* The categories among ids whose name is the text, letter for letter
NamedExactly(ids, name) == {c \in ids : categories[c].name = name}

\* SELECT id FROM categories WHERE LOWER(name) = LOWER(?)
NamedLike(ids, name) == {c \in ids : SameName(categories[c].name, name)}

\* !name || !name.trim()
CategoryNameMissing(in) == Trim(in.name) = ""

\* POST /admin/categories/add
AddCategory(r, bodies) ==
    /\ CanArrive(r)
    /\ \E body \in bodies :
        IF CategoryNameMissing(body)
        THEN /\ SetReq(r, Respond(NewReq("categories/add", body, << >>),
                                  "Category name is required"))
             /\ UNCHANGED queue
        ELSE /\ SetReq(r, NewReq("categories/add", body, << >>))
             /\ queue' = Issue(queue, r, "SELECT category by name")
    /\ UNCHANGED <<db, discountsPage, now>>

\* SELECT id FROM categories WHERE LOWER(name) = LOWER(?)
AddCategory_CheckName(r) ==
    /\ AtHead(r, "SELECT category by name")
    /\ IF NamedLike(DOMAIN categories, Trim(reqs[r].in.name)) # {}
       THEN /\ SetReq(r, Respond(reqs[r], "This category name already exists"))
            /\ queue' = Pop
       ELSE /\ queue' = Issue(Pop, r, "INSERT category")
            /\ UNCHANGED reqs
    /\ UNCHANGED <<db, discountsPage, now>>

\* INSERT INTO categories (name, description, is_active) VALUES (?, ?, ?)
AddCategory_Insert(r) ==
    /\ AtHead(r, "INSERT category")
    /\ categories' = Insert(categories, nextCategoryId,
                            [name |-> Trim(reqs[r].in.name),
                             is_active |-> reqs[r].in.is_active])
    /\ nextCategoryId' = nextCategoryId + 1
    /\ SetReq(r, Respond(reqs[r], "redirect /admin/categories"))
    /\ queue' = Pop
    /\ UNCHANGED <<discountsPage, admin_users, sessions, products,
                   product_images, inventory_adjustments, files, nextProductId,
                   nextImageId, now>>

\* POST /admin/categories/edit/:id
EditCategory(r, bodies) ==
    /\ CanArrive(r)
    /\ \E body \in bodies :
        /\ SetReq(r, NewReq("categories/edit", body, << >>))
        /\ queue' = Issue(queue, r,
                          IF CategoryNameMissing(body)
                          THEN "SELECT category"
                          ELSE "SELECT other category by name")
    /\ UNCHANGED <<db, discountsPage, now>>

\* SELECT * FROM categories WHERE id = ?, then the form with the error
EditCategory_Required(r) ==
    /\ AtHead(r, "SELECT category")
    /\ SetReq(r, Respond(reqs[r], "Category name is required"))
    /\ queue' = Pop
    /\ UNCHANGED <<db, discountsPage, now>>

\* SELECT id FROM categories WHERE LOWER(name) = LOWER(?) AND id != ?
EditCategory_CheckName(r) ==
    /\ AtHead(r, "SELECT other category by name")
    /\ IF NamedLike(DOMAIN categories \ {reqs[r].in.id},
                    Trim(reqs[r].in.name)) # {}
       THEN /\ SetReq(r, Respond(reqs[r],
                    "Another category with this name already exists"))
            /\ queue' = Pop
       ELSE /\ queue' = Issue(Pop, r, "UPDATE category")
            /\ UNCHANGED reqs
    /\ UNCHANGED <<db, discountsPage, now>>

\* UPDATE categories SET name = ?, description = ?, is_active = ?,
\* updated_at = NOW() WHERE id = ?
EditCategory_Update(r) ==
    /\ AtHead(r, "UPDATE category")
    /\ categories' =
           IF reqs[r].in.id \in DOMAIN categories
           THEN [categories EXCEPT ![reqs[r].in.id] =
                    [name |-> Trim(reqs[r].in.name),
                     is_active |-> reqs[r].in.is_active]]
           ELSE categories
    /\ SetReq(r, Respond(reqs[r], "redirect /admin/categories"))
    /\ queue' = Pop
    /\ UNCHANGED <<discountsPage, admin_users, sessions, products,
                   product_images, inventory_adjustments, files, nextProductId,
                   nextImageId, nextCategoryId, now>>

\* POST /admin/categories/reactivate/:id
ReactivateCategory(r, ids) ==
    /\ CanArrive(r)
    /\ \E id \in ids :
        SetReq(r, NewReq("categories/reactivate", [id |-> id], << >>))
    /\ queue' = Issue(queue, r, "UPDATE category active")
    /\ UNCHANGED <<db, discountsPage, now>>

\* UPDATE categories SET is_active = 1, updated_at = NOW() WHERE id = ?
ReactivateCategory_Update(r) ==
    /\ AtHead(r, "UPDATE category active")
    /\ categories' =
           IF reqs[r].in.id \in DOMAIN categories
           THEN [categories EXCEPT ![reqs[r].in.id].is_active = 1]
           ELSE categories
    /\ SetReq(r, Respond(reqs[r], "redirect /admin/categories"))
    /\ queue' = Pop
    /\ UNCHANGED <<discountsPage, admin_users, sessions, products,
                   product_images, inventory_adjustments, files, nextProductId,
                   nextImageId, nextCategoryId, now>>

\* exports.deleteCategory
DeleteCategory(r, ids) ==
    /\ CanArrive(r)
    /\ \E id \in ids :
        SetReq(r, NewReq("deleteCategory", [id |-> id], << >>))
    /\ queue' = Issue(queue, r, "DELETE products of category")
    /\ UNCHANGED <<db, discountsPage, now>>

\* DELETE FROM products WHERE category_id = ?
DeleteCategory_DeleteProducts(r) ==
    /\ AtHead(r, "DELETE products of category")
    /\ products' = Delete(products,
                          {p \in DOMAIN products :
                              products[p].category_id = reqs[r].in.id})
    /\ queue' = Issue(Pop, r, "DELETE category")
    /\ UNCHANGED <<discountsPage, admin_users, sessions, product_images,
                   inventory_adjustments, files, nextProductId, nextImageId,
                   categories, nextCategoryId, now, reqs>>

\* DELETE FROM categories WHERE id = ?
DeleteCategory_DeleteCategory(r) ==
    /\ AtHead(r, "DELETE category")
    /\ categories' = Delete(categories, {reqs[r].in.id})
    /\ SetReq(r, Respond(reqs[r], "200 OK"))
    /\ queue' = Pop
    /\ UNCHANGED <<discountsPage, admin_users, sessions, products,
                   product_images, inventory_adjustments, files, nextProductId,
                   nextImageId, nextCategoryId, now>>

(* Category requests on the catalog: names that are blank, that differ from a
   stored name by case or by a leading blank, and a new name *)

CategoryNames == {"", " ", "C", " ab", "d"}

NextCategories ==
    \E r \in ReqIds :
        \/ AddCategory(r, CategoryBodies({0}, CategoryNames))
        \/ AddCategory_CheckName(r)
        \/ AddCategory_Insert(r)
        \/ EditCategory(r, CategoryBodies({1, 2}, CategoryNames))
        \/ EditCategory_Required(r)
        \/ EditCategory_CheckName(r)
        \/ EditCategory_Update(r)
        \/ ReactivateCategory(r, {2, 3})
        \/ ReactivateCategory_Update(r)

SpecCategories == InitCatalog /\ [][NextCategories]_vars

(* Requests that deactivate or delete a category of the catalog *)

NextCategoryRemoval ==
    \E r \in ReqIds :
        \/ EditCategory(r, CategoryBodies({1, 2}, CategoryNames \cup {"c"}))
        \/ EditCategory_Required(r)
        \/ EditCategory_CheckName(r)
        \/ EditCategory_Update(r)
        \/ DeleteCategory(r, {1, 2, 3})
        \/ DeleteCategory_DeleteProducts(r)
        \/ DeleteCategory_DeleteCategory(r)

SpecCategoryRemoval == InitCatalog /\ [][NextCategoryRemoval]_vars

-----------------------------------------------------------------------------
(* Sessions: ensureAdmin, login, signup and logout (second generation) *)

\* req.session of a request that carries the cookie of session sid
Session(sid) == [sid |-> sid, admin |-> sessions[sid]]

\* A guard that lets every request through
EnsureNothing(sid) == sid \in SessionIds

\* if (req.session.admin) return next(); res.redirect('/login')
EnsureAdmin(sid) == sessions[sid] # NoAdmin

\* SELECT ... FROM admin_users WHERE email = ?
AdminsWithEmail(email) ==
    {a \in DOMAIN admin_users : admin_users[a].email = email}

First(ids) == CHOOSE a \in ids : \A b \in ids : a <= b

\* POST /login
Login(r, sids, emails, passwords) ==
    /\ CanArrive(r)
    /\ \E sid \in sids, email \in emails, password \in passwords :
        SetReq(r, NewReq("login", [email |-> email, password |-> password]
                                  @@ Session(sid), << >>))
    /\ queue' = Issue(queue, r, "SELECT active admin by email")
    /\ UNCHANGED <<db, discountsPage, now>>

\* SELECT * FROM admin_users WHERE email = ? AND is_active = 1, then
\* bcrypt.compare and req.session.admin = admin
Login_Select(r) ==
    /\ AtHead(r, "SELECT active admin by email")
    /\ LET in == reqs[r].in
           results == {a \in AdminsWithEmail(in.email) :
                          admin_users[a].is_active = 1}
       IN IF \/ results = {}
             \/ ~Compare(in.password, admin_users[First(results)].password_hash)
          THEN /\ SetReq(r, Respond(reqs[r], "Invalid credentials"))
               /\ UNCHANGED sessions
          ELSE /\ sessions' = [sessions EXCEPT ![in.sid] = First(results)]
               /\ SetReq(r, Respond(reqs[r], "redirect /admin/homepage"))
    /\ queue' = Pop
    /\ UNCHANGED <<discountsPage, products, product_images,
                   inventory_adjustments, files, nextProductId, nextImageId,
                   categories, nextCategoryId, admin_users, now>>

\* POST /signup
Signup(r, emails, passwords) ==
    /\ CanArrive(r)
    /\ \E email \in emails, password \in passwords, confirm \in passwords :
        LET in == [username |-> "u", email |-> email, password |-> password,
                   confirmPassword |-> confirm]
        IN IF email = ""
           THEN /\ SetReq(r, Respond(NewReq("signup", in, << >>),
                                     "All fields are required"))
                /\ UNCHANGED queue
           ELSE IF password # confirm
           THEN /\ SetReq(r, Respond(NewReq("signup", in, << >>),
                                     "Passwords do not match"))
                /\ UNCHANGED queue
           ELSE /\ SetReq(r, NewReq("signup", in, [hash |-> Hash(password)]))
                /\ queue' = Issue(queue, r, "SELECT admin by email")
    /\ UNCHANGED <<db, discountsPage, now>>

\* SELECT id, is_active FROM admin_users WHERE email = ?
Signup_Select(r) ==
    /\ AtHead(r, "SELECT admin by email")
    /\ LET rows == AdminsWithEmail(reqs[r].in.email)
       IN IF rows = {}
          THEN /\ queue' = Issue(Pop, r, "INSERT admin")
               /\ UNCHANGED reqs
          ELSE IF admin_users[First(rows)].is_active = 0
          THEN /\ queue' = Issue(Pop, r, "UPDATE admin")
               /\ UNCHANGED reqs
          ELSE /\ SetReq(r, Respond(reqs[r], "Admin already exists"))
               /\ queue' = Pop
    /\ UNCHANGED <<db, discountsPage, now>>

\* UPDATE admin_users SET name=?, password_hash=?, is_active=1 WHERE email=?
Signup_Update(r) ==
    /\ AtHead(r, "UPDATE admin")
    /\ admin_users' =
           [a \in DOMAIN admin_users |->
               IF a \in AdminsWithEmail(reqs[r].in.email)
               THEN [admin_users[a] EXCEPT !.name = reqs[r].in.username,
                                           !.password_hash = reqs[r].loc.hash,
                                           !.is_active = 1]
               ELSE admin_users[a]]
    /\ SetReq(r, Respond(reqs[r], "redirect /login"))
    /\ queue' = Pop
    /\ UNCHANGED <<discountsPage, products, product_images,
                   inventory_adjustments, files, nextProductId, nextImageId,
                   categories, nextCategoryId, sessions, now>>

\* INSERT INTO admin_users (name, email, password_hash, is_active)
\* VALUES (?, ?, ?, 1)
Signup_Insert(r) ==
    /\ AtHead(r, "INSERT admin")
    /\ admin_users' = Append(admin_users,
                             [name |-> reqs[r].in.username,
                              email |-> reqs[r].in.email,
                              password_hash |-> reqs[r].loc.hash,
                              is_active |-> 1])
    /\ SetReq(r, Respond(reqs[r], "redirect /login"))
    /\ queue' = Pop
    /\ UNCHANGED <<discountsPage, products, product_images,
                   inventory_adjustments, files, nextProductId, nextImageId,
                   categories, nextCategoryId, sessions, now>>

\* POST /logout: req.session.destroy(() => res.redirect('/login'))
Logout(r, sids) ==
    /\ CanArrive(r)
    /\ \E sid \in sids :
        /\ SetReq(r, Respond(NewReq("logout", Session(sid), << >>),
                             "redirect /login"))
        /\ sessions' = [sessions EXCEPT ![sid] = NoAdmin]
    /\ UNCHANGED <<discountsPage, products, product_images,
                   inventory_adjustments, files, nextProductId, nextImageId,
                   categories, nextCategoryId, admin_users, now, queue>>

\* app.post('/admin/categories/reactivate/:id', ensureAdmin, handler)
GuardedReactivate(r, sids, ids) ==
    /\ CanArrive(r)
    /\ \E sid \in sids, id \in ids :
        LET in == [id |-> id] @@ Session(sid)
        IN IF EnsureAdmin(sid)
           THEN /\ SetReq(r, NewReq("categories/reactivate", in, << >>))
                /\ queue' = Issue(queue, r, "UPDATE category active")
           ELSE /\ SetReq(r, Respond(NewReq("categories/reactivate", in, << >>),
                                     "redirect /login"))
                /\ UNCHANGED queue
    /\ UNCHANGED <<db, discountsPage, now>>

\* app.post('/admin/addproduct', ensureAdmin, upload.array('images', 10),
\* handler): the files are stored only after the guard has let the request
\* through.
GuardedAddProduct(r, sids, bodies) ==
    /\ CanArrive(r)
    /\ \E sid \in sids, body \in bodies :
        IF EnsureAdmin(sid)
        THEN \E names \in FilenamesV2(body.nfiles) :
                /\ Upload(names)
                /\ AddProductStart(r, "addproduct V2",
                                   WithFiles(body, names) @@ Session(sid))
        ELSE /\ SetReq(r, Respond(NewReq("addproduct V2",
                                         WithFiles(body, << >>) @@ Session(sid),
                                         << >>),
                                  "redirect /login"))
             /\ UNCHANGED <<discountsPage, files, now, queue>>
    /\ UNCHANGED <<discountsPage, products, product_images,
                   inventory_adjustments, nextProductId, nextImageId,
                   categories, nextCategoryId, admin_users, sessions>>

(* Requests of two browsers, logged out at first *)

NextSessions ==
    \E r \in ReqIds :
        \/ Login(r, SessionIds, {"x", "y", "z"}, {"p", "q"})
        \/ Login_Select(r)
        \/ Signup(r, {"", "x", "y", "z"}, {"p", "q"})
        \/ Signup_Select(r)
        \/ Signup_Update(r)
        \/ Signup_Insert(r)
        \/ Logout(r, SessionIds)
        \/ GuardedReactivate(r, SessionIds, {2})
        \/ ReactivateCategory_Update(r)
        \/ GuardedAddProduct(r, SessionIds,
               AddProductBodies({"a"}, {Num(5)}, {Num(2)}, {1}, {1}, {Num(0)}))
        \/ AddProductV2_CheckName(r)
        \/ RenderForm(r)

SpecSessions == InitCatalog /\ [][NextSessions]_vars

-----------------------------------------------------------------------------
(* The discounts page script, src/public/js/discounts.js *)

Max(a, b) == IF a >= b THEN a ELSE b

Min(a, b) == IF a <= b THEN a ELSE b

\* An index of Array.prototype.slice, counted from the end when negative
SliceIndex(i, length) == IF i < 0 THEN Max(length + i, 0) ELSE Min(i, length)

\* discounts.slice(start, end).length
SliceLength(length, start, end) ==
    Max(SliceIndex(end, length) - SliceIndex(start, length), 0)

\* updatePagination()
UpdatePagination(page) ==
    [page EXCEPT !.prevDisabled = (page.currentPage = 1),
                 !.nextDisabled = (page.currentPage * pageSize >= page.discounts),
                 !.bound = TRUE]

\* renderTable(): an empty page returns before updatePagination()
RenderTable(page) ==
    LET start == (page.currentPage - 1) * pageSize
        pageData == SliceLength(page.discounts, start, start + pageSize)
    IN IF pageData = 0
       THEN [page EXCEPT !.rows = 0]
       ELSE UpdatePagination([page EXCEPT !.rows = pageData])

\* loadDiscounts(), once the list has arrived
LoadDiscounts(page) ==
    RenderTable([page EXCEPT !.discounts = page.server, !.currentPage = 1])

\* Somebody else adds or deletes discounts
OthersChange ==
    /\ \E n \in 0..MaxDiscounts :
        /\ n # discountsPage.server
        /\ discountsPage' = [discountsPage EXCEPT !.server = n]
    /\ UNCHANGED <<db, now, reqs, queue>>

\* DOMContentLoaded: the page is opened or opened again
DOMContentLoaded ==
    /\ discountsPage' =
           LoadDiscounts([NewPage(discountsPage.server) EXCEPT !.open = TRUE])
    /\ UNCHANGED <<db, now, reqs, queue>>

\* prevBtn.onclick, which a disabled button does not run
ClickPrev ==
    /\ discountsPage.bound /\ ~discountsPage.prevDisabled
    /\ discountsPage.currentPage > -MaxPage
    /\ discountsPage' = RenderTable([discountsPage EXCEPT !.currentPage = @ - 1])
    /\ UNCHANGED <<db, now, reqs, queue>>

\* nextBtn.onclick, which a disabled button does not run
ClickNext ==
    /\ discountsPage.bound /\ ~discountsPage.nextDisabled
    /\ discountsPage.currentPage < MaxPage
    /\ discountsPage' = RenderTable([discountsPage EXCEPT !.currentPage = @ + 1])
    /\ UNCHANGED <<db, now, reqs, queue>>

\* saveDiscount(e) of a new discount: POST /api/discounts, then loadDiscounts()
SaveDiscount ==
    /\ discountsPage.open
    /\ discountsPage.server < MaxDiscounts
    /\ discountsPage' = LoadDiscounts([discountsPage EXCEPT !.server = @ + 1])
    /\ UNCHANGED <<db, now, reqs, queue>>

\* deleteDiscount(id) from a row of the table: DELETE /api/discounts/:id,
\* then loadDiscounts()
DeleteDiscount ==
    /\ discountsPage.rows > 0
    /\ discountsPage' =
           LoadDiscounts([discountsPage EXCEPT !.server = Max(@ - 1, 0)])
    /\ UNCHANGED <<db, now, reqs, queue>>

NextDiscounts ==
    \/ OthersChange
    \/ DOMContentLoaded
    \/ ClickPrev
    \/ ClickNext
    \/ SaveDiscount
    \/ DeleteDiscount

SpecDiscounts == Init /\ [][NextDiscounts]_vars

-----------------------------------------------------------------------------
(* GET /admin/inventory (both generations have the same handler) *)

\* The statistics of the inventory page over the rows of the SELECT
Stats(rows) ==
    [total |-> Cardinality(DOMAIN rows),
     inStock |-> Cardinality({p \in DOMAIN rows : rows[p].stock > 10}),
     lowStock |-> Cardinality({p \in DOMAIN rows :
                                  rows[p].stock > 0 /\ rows[p].stock <= 10}),
     outOfStock |-> Cardinality({p \in DOMAIN rows : rows[p].stock = 0})]

Inventory(r) ==
    /\ CanArrive(r)
    /\ SetReq(r, NewReq("inventory", << >>, << >>))
    /\ queue' = Issue(queue, r, "SELECT inventory")
    /\ UNCHANGED <<db, discountsPage, now>>

\* SELECT p.id, p.name, p.price, p.stock, c.name ... FROM products p, then
\* the statistics and the page
Inventory_Select(r) ==
    /\ AtHead(r, "SELECT inventory")
    /\ SetReq(r, Respond([reqs[r] EXCEPT !.loc = [stats |-> Stats(products)]],
                         "inventory"))
    /\ queue' = Pop
    /\ UNCHANGED <<db, discountsPage, now>>

(* Stock requests and the inventory page on the catalog *)

NextInventory ==
    \/ NextStock
    \/ \E r \in ReqIds : Inventory(r) \/ Inventory_Select(r)

SpecInventory == InitCatalog /\ [][NextInventory]_vars

-----------------------------------------------------------------------------
(* Claims about the stock handlers *)

StockOps == {"update-stock", "update"}

\* The product and the quantity a stock request names
StockTarget(rec) == IF rec.op = "update-stock" THEN rec.in.productId ELSE rec.in.id
StockWanted(rec) == IF rec.op = "update-stock" THEN rec.in.newStock ELSE rec.in.stock

StockSum(row) == row.stock + row.warehouse_stock

Succeeded(rec) ==
    /\ rec.st = "done"
    /\ rec.resp \in {"success", "redirect /admin/inventory"}

Quiescent == queue = << >> /\ \A r \in ReqIds : reqs[r].st # "running"

\* r ran on its own: the connection was idle when it arrived and no request
\* has arrived since.
Sequential(r) ==
    /\ reqs[r].quiet
    /\ \A q \in ReqIds : q > r => reqs[q].st = "idle"

\* C1: after any sequence of successful stock edits of a product, with no
\* creation or restock in between, stock + warehouse_stock of the product is
\* what it was before the sequence.
C1_StockSumPreserved ==
    Quiescent =>
        \A r \in ReqIds :
            (reqs[r].op \in StockOps /\ Succeeded(reqs[r])) =>
                \A id \in DOMAIN reqs[r].pre.products :
                    StockSum(products[id]) = StockSum(reqs[r].pre.products[id])

\* C2: a stock edit that asks for an increase larger than the warehouse stock
\* fails and leaves both counters of the product as they were.
C2_InsufficientWarehouseRejected ==
    \A r \in ReqIds :
        LET rec == reqs[r]
            id == StockTarget(rec)
        IN  (/\ rec.op \in StockOps
             /\ rec.st = "done"
             /\ Sequential(r)
             /\ id \in DOMAIN rec.pre.products
             /\ IsNum(StockWanted(rec))
             /\ StockWanted(rec).v - rec.pre.products[id].stock
                    > rec.pre.products[id].warehouse_stock)
            => /\ ~Succeeded(rec)
               /\ products[id].stock = rec.pre.products[id].stock
               /\ products[id].warehouse_stock = rec.pre.products[id].warehouse_stock

\* C3: every product has stock >= 0 and warehouse stock >= 0 in every
\* reachable state.
C3_StockNonNegative ==
    \A id \in DOMAIN products :
        products[id].stock >= 0 /\ products[id].warehouse_stock >= 0

\* C4: two update-stock requests on one product that interleave query by
\* query end as if one had run after the other: the final stock and the two
\* recorded deltas are those of one of the two serial orders.
SerialOutcome(s0, first, second, final, diffFirst, diffSecond) ==
    /\ diffFirst = first - s0
    /\ diffSecond = second - first
    /\ final = second

C4_StockUpdatesSerializable ==
    \A r1, r2 \in ReqIds :
        LET a == reqs[r1]
            b == reqs[r2]
            id == a.in.productId
        IN  (/\ r1 < r2
             /\ a.op = "update-stock" /\ b.op = "update-stock"
             /\ a.resp = "success" /\ b.resp = "success"
             /\ b.in.productId = id
             /\ \A q \in ReqIds \ {r1, r2} : reqs[q].st = "idle")
            => LET s0 == a.pre.products[id].stock
                   logged == [i \in DOMAIN inventory_adjustments |->
                                 inventory_adjustments[i].change_amount]
               IN  \/ /\ SerialOutcome(s0, a.in.newStock.v, b.in.newStock.v,
                                       products[id].stock, a.loc.diff, b.loc.diff)
                      /\ logged = <<a.loc.diff, b.loc.diff>>
                   \/ /\ SerialOutcome(s0, b.in.newStock.v, a.in.newStock.v,
                                       products[id].stock, b.loc.diff, a.loc.diff)
                      /\ logged = <<b.loc.diff, a.loc.diff>>

-----------------------------------------------------------------------------
(* Claims about add-product *)

AddOps == {"addproduct V1", "addproduct V2"}

RequiredFieldsError ==
    "All fields are required and at least one image must be uploaded"

DuplicateNameError == "Product with this name already exists"

\* The request has ended: it was answered or the process died in its callback.
Ended(rec) == rec.st \in {"done", "crashed"}

\* The queries request r has waiting in the command queue
Queued(r) == {queue[i][2] : i \in {j \in DOMAIN queue : queue[j][1] = r}}

\* The product rows inserted since request r arrived
NewProducts(r) == DOMAIN products \ DOMAIN reqs[r].pre.products

\* The image rows inserted since request r arrived
NewImages(r) == DOMAIN product_images \ DOMAIN reqs[r].pre.product_images

\* The catalog of InitCatalog, a state two add-product requests lead to
CatalogReached ==
    /\ products = CatalogProducts
    /\ product_images = CatalogImages
    /\ files = Range(BodyA.files) \cup Range(BodyB.files)
    /\ nextProductId = 3 /\ nextImageId = 4 /\ now = 2
    /\ queue = << >>

\* C5: an add-product request whose name is that of an active product is
\* answered with the duplicate-name error and leaves no new product row, no
\* new image row and no new file in public/uploads.
C5_DuplicateLeavesNothing ==
    \A r \in ReqIds :
        LET rec == reqs[r] IN
        (/\ rec.op \in AddOps
         /\ ~AddProductInvalid(rec.in)
         /\ \E id \in DOMAIN rec.pre.products :
                /\ rec.pre.products[id].name = rec.in.name
                /\ rec.pre.products[id].is_active = 1
         /\ Sequential(r)
         /\ Ended(rec))
        => /\ rec.resp = DuplicateNameError
           /\ products = rec.pre.products
           /\ product_images = rec.pre.product_images
           /\ files = rec.pre.files

\* The part of C5 the code keeps: the answer is the duplicate-name error and
\* no row is inserted.
DuplicateInsertsNoRow ==
    \A r \in ReqIds :
        LET rec == reqs[r] IN
        (/\ rec.op \in AddOps
         /\ ~AddProductInvalid(rec.in)
         /\ \E id \in DOMAIN rec.pre.products :
                /\ rec.pre.products[id].name = rec.in.name
                /\ rec.pre.products[id].is_active = 1
         /\ Sequential(r)
         /\ Ended(rec))
        => /\ rec.resp = DuplicateNameError
           /\ products = rec.pre.products
           /\ product_images = rec.pre.product_images

\* C6: an add-product request with zero images is answered with the
\* validation error; it never issues a query other than the reload of the
\* categories for the form, and no product or image row is inserted.
C6_NoImagesRejected ==
    \A r \in ReqIds :
        LET rec == reqs[r] IN
        (rec.op \in AddOps /\ rec.in.files = << >>)
        => /\ rec.st # "crashed"
           /\ rec.st = "done" => rec.resp = RequiredFieldsError
           /\ Queued(r) \subseteq {"SELECT categories"}
           /\ Sequential(r) => /\ products = rec.pre.products
                               /\ product_images = rec.pre.product_images

\* A request with every field but the images has been rejected.
C6_Witness ==
    \E r \in ReqIds :
        /\ reqs[r].op \in AddOps
        /\ reqs[r].in.files = << >>
        /\ reqs[r].in.name = "a"
        /\ IsNum(reqs[r].in.price) /\ IsNum(reqs[r].in.quantity)
        /\ reqs[r].in.category_id # 0
        /\ reqs[r].st = "done"
        /\ reqs[r].resp = RequiredFieldsError
        /\ products = reqs[r].pre.products

\* The image rows of a product, in insertion order, as the sequence of URLs
RECURSIVE UrlsFrom(_, _)
UrlsFrom(ids, productId) ==
    IF ids = {} THEN << >>
    ELSE LET i == CHOOSE m \in ids : \A j \in ids : m <= j
             rest == UrlsFrom(ids \ {i}, productId)
         IN  IF product_images[i].product_id = productId
             THEN <<product_images[i].image_url>> \o rest ELSE rest

ImageUrls(productId) == UrlsFrom(DOMAIN product_images, productId)

UploadedUrls(rec) == [i \in DOMAIN rec.in.files |-> Url(rec.in.files[i])]

\* C7: no product of a failed add-product request stays visible: every
\* product row an ended request has inserted comes with the request's image
\* rows and a cover among them.
C7_NoPartialProduct ==
    \A r \in ReqIds :
        LET rec == reqs[r] IN
        (rec.op \in AddOps /\ Sequential(r) /\ Ended(rec))
        => \A id \in NewProducts(r) :
              /\ rec.resp = "redirect /admin/products"
              /\ rec.errors = {}
              /\ ImageUrls(id) = UploadedUrls(rec)
              /\ products[id].image_url \in Range(UploadedUrls(rec))

\* min(max(coverIndex, 0), n - 1), a missing or non-numeric index counting as 0
Clamp(coverIndex, n) ==
    LET c == IF IsNum(coverIndex) THEN coverIndex.v ELSE 0
        low == IF c < 0 THEN 0 ELSE c
    IN  IF low > n - 1 THEN n - 1 ELSE low

Created(r, id) ==
    /\ NewProducts(r) = {id}
    /\ reqs[r].resp = "redirect /admin/products"

\* C8: an add-product request with all fields, n >= 1 images, a name not in
\* use and any cover index creates the product with its n image rows in
\* upload order and the image at the clamped index as cover.
C8_CoverIndexClamped ==
    \A r \in ReqIds :
        LET rec == reqs[r] IN
        (/\ rec.op \in AddOps
         /\ ~AddProductInvalid(rec.in)
         /\ \A id \in DOMAIN rec.pre.products :
                rec.pre.products[id].name # rec.in.name
         /\ Sequential(r)
         /\ Ended(rec))
        => \E id \in DOMAIN products :
              /\ Created(r, id)
              /\ ImageUrls(id) = UploadedUrls(rec)
              /\ products[id].image_url =
                     Url(rec.in.files[Clamp(rec.in.coverIndex,
                                            Len(rec.in.files)) + 1])

\* What the first generation does: when the request is answered with the
\* redirect, the product has its n image rows in upload order and the image
\* at the submitted index as cover.
CoverIndexHonoured ==
    \A r \in ReqIds :
        LET rec == reqs[r] IN
        (/\ rec.op \in AddOps
         /\ rec.resp = "redirect /admin/products"
         /\ Sequential(r))
        => \E id \in DOMAIN products :
              /\ Created(r, id)
              /\ ImageUrls(id) = UploadedUrls(rec)
              /\ products[id].image_url =
                     Url(rec.in.files[Clamp(rec.in.coverIndex,
                                            Len(rec.in.files)) + 1])

-----------------------------------------------------------------------------
(* Claims about the images of a product *)

EditOps == {"editproduct V1", "editproduct V2"}

ImageInserts == {"INSERT images", "INSERT new images"}

\* C9: when the insert of the image rows of a request fails, no image row of
\* that request exists afterwards and none of the files it uploaded remains
\* in public/uploads.
C9_FailedAttachLeavesNothing ==
    \A r \in ReqIds :
        LET rec == reqs[r] IN
        (/\ rec.op \in AddOps \cup EditOps
         /\ rec.errors \cap ImageInserts # {}
         /\ Sequential(r)
         /\ Ended(rec)
         /\ queue = << >>)
        => /\ NewImages(r) = {}
           /\ Range(rec.in.files) \cap files = {}

\* The part of C9 the code keeps: the multi-row INSERT is one statement, so a
\* failed insert leaves no image row of the request.
FailedAttachLeavesNoRow ==
    \A r \in ReqIds :
        LET rec == reqs[r] IN
        (/\ rec.op \in AddOps \cup EditOps
         /\ rec.errors \cap ImageInserts # {}
         /\ Sequential(r)
         /\ Ended(rec)
         /\ queue = << >>)
        => NewImages(r) = {}

\* The request removes every image its product had, uploads none and names
\* no cover.
RemovesAllImages(rec) ==
    /\ rec.op \in EditOps
    /\ rec.in.id \in DOMAIN rec.pre.products
    /\ ImagesOf(rec.pre.product_images, rec.in.id) # {}
    /\ ImagesOf(rec.pre.product_images, rec.in.id) \subseteq rec.in.removedImages
    /\ rec.in.files = << >>
    /\ rec.in.coverImageId = 0

\* C10: after an edit-product request that removes every image of the
\* product, uploads none and names no cover, the product's cover is null.
C10_NoImagesNoCover ==
    \A r \in ReqIds :
        LET rec == reqs[r] IN
        (/\ RemovesAllImages(rec)
         /\ Sequential(r)
         /\ rec.st = "done"
         /\ queue = << >>)
        => products[rec.in.id].image_url = Null

\* What holds of both generations: the second sets the cover to null, the
\* first leaves the cover as it was.
NoImagesCoverNullOrKept ==
    \A r \in ReqIds :
        LET rec == reqs[r] IN
        (/\ RemovesAllImages(rec)
         /\ Sequential(r)
         /\ rec.st = "done"
         /\ queue = << >>)
        => /\ ImagesOf(product_images, rec.in.id) = {}
           /\ products[rec.in.id].image_url =
                  IF rec.op = "editproduct V2" THEN Null
                  ELSE rec.pre.products[rec.in.id].image_url

-----------------------------------------------------------------------------
(* Claims about the cover of an edited product *)

\* The image rows of the product whose URL is the product's cover
CoverImages(snapshot, productId) ==
    {i \in ImagesOf(snapshot.product_images, productId) :
        snapshot.product_images[i].image_url =
            snapshot.products[productId].image_url}

\* The image rows of the product the request does not remove
Remaining(rec) ==
    ImagesOf(rec.pre.product_images, rec.in.id) \ rec.in.removedImages

\* The request removes the image used as cover, leaves another image of the
\* product, and names no cover or the removed one.
RemovesCover(rec) ==
    /\ rec.op \in EditOps
    /\ rec.in.id \in DOMAIN rec.pre.products
    /\ CoverImages(rec.pre, rec.in.id) # {}
    /\ CoverImages(rec.pre, rec.in.id) \subseteq rec.in.removedImages
    /\ Remaining(rec) # {}
    /\ rec.in.coverImageId \in {0} \cup CoverImages(rec.pre, rec.in.id)

EarliestRemainingUrl(rec) ==
    rec.pre.product_images[
        CHOOSE i \in Remaining(rec) : \A j \in Remaining(rec) : i <= j].image_url

\* C11: an edit-product request that removes the cover image while another
\* image of the product remains ends with the remaining image of smallest id
\* as cover, whether it names no cover or the removed image.
C11_CoverFallsBackToEarliest ==
    \A r \in ReqIds :
        LET rec == reqs[r] IN
        (/\ RemovesCover(rec)
         /\ Sequential(r)
         /\ rec.st = "done"
         /\ queue = << >>)
        => products[rec.in.id].image_url = EarliestRemainingUrl(rec)

\* What holds of both generations: the second falls back to the earliest
\* remaining image, the first leaves the cover as it was.
CoverFallsBackOrKept ==
    \A r \in ReqIds :
        LET rec == reqs[r] IN
        (/\ RemovesCover(rec)
         /\ Sequential(r)
         /\ rec.st = "done"
         /\ queue = << >>)
        => products[rec.in.id].image_url =
               IF rec.op = "editproduct V2" THEN EarliestRemainingUrl(rec)
               ELSE rec.pre.products[rec.in.id].image_url

\* The cover of the product agrees with its image rows
CoverConsistent(productId) ==
    LET own == ImagesOf(product_images, productId)
    IN  IF own = {} THEN products[productId].image_url = Null
        ELSE /\ products[productId].image_url # Null
             /\ \E i \in own :
                    product_images[i].image_url = products[productId].image_url

\* The products request r created or edited
Touched(r) ==
    IF reqs[r].op \in EditOps THEN {reqs[r].in.id} \cap DOMAIN products
    ELSE NewProducts(r)

\* C12: after every completed add-product or edit-product request the cover
\* of the product agrees with its image rows: with at least one image row
\* the cover is the URL of one of them, with none it is null.
C12_CoverConsistent ==
    \A r \in ReqIds :
        (/\ reqs[r].op \in AddOps \cup EditOps
         /\ Sequential(r)
         /\ reqs[r].st = "done"
         /\ queue = << >>)
        => \A id \in Touched(r) : CoverConsistent(id)

\* The same of the first-generation add-product and the second-generation
\* edit-product alone, which it holds of when no query fails
CoverConsistentWhereSet ==
    \A r \in ReqIds :
        (/\ reqs[r].op \in {"addproduct V1", "editproduct V2"}
         /\ Sequential(r)
         /\ reqs[r].st = "done"
         /\ queue = << >>)
        => \A id \in Touched(r) : CoverConsistent(id)

-----------------------------------------------------------------------------
(* Claims about what an edit may touch *)

\* The request names for removal an image that is not one of its product
RemovesForeignImage(rec) ==
    /\ rec.op \in EditOps
    /\ rec.in.id \in DOMAIN rec.pre.products
    /\ rec.in.removedImages \ ImagesOf(rec.pre.product_images, rec.in.id) # {}

\* C13: an edit of a product whose removed-image list holds an id that is not
\* an image of that product deletes no image row and unlinks no file; the
\* image rows and files of other products are as they were.
C13_ForeignImageRejected ==
    \A r \in ReqIds :
        LET rec == reqs[r] IN
        (/\ RemovesForeignImage(rec)
         /\ Sequential(r)
         /\ rec.st = "done"
         /\ queue = << >>)
        => /\ DOMAIN rec.pre.product_images \subseteq DOMAIN product_images
           /\ rec.pre.files \subseteq files

-----------------------------------------------------------------------------
(* Claims about the fields of an edit *)

\* The request gives its product the name of another active product
TakesNameInUse(rec) ==
    /\ rec.op \in EditOps
    /\ rec.in.id \in DOMAIN rec.pre.products
    /\ rec.pre.products[rec.in.id].name # rec.in.name
    /\ \E id \in DOMAIN rec.pre.products \ {rec.in.id} :
          /\ rec.pre.products[id].name = rec.in.name
          /\ rec.pre.products[id].is_active = 1

UniqueActiveNames(table) ==
    \A i, j \in DOMAIN table :
        (i # j /\ table[i].is_active = 1 /\ table[j].is_active = 1)
        => table[i].name # table[j].name

\* C14: an edit-product request that gives a product the name of another
\* active product is rejected: the product keeps its name, and requests run
\* one at a time never leave two active products with one name.
C14_RenameToNameInUseRejected ==
    \A r \in ReqIds :
        LET rec == reqs[r] IN
        (/\ TakesNameInUse(rec)
         /\ Sequential(r)
         /\ rec.st = "done"
         /\ queue = << >>)
        => /\ products[rec.in.id].name = rec.pre.products[rec.in.id].name
           /\ UniqueActiveNames(rec.pre.products) => UniqueActiveNames(products)

\* The check the edit form can ask for does tell a name in use from a free
\* one; the edit handler does not ask for it.
NameCheckAnswers ==
    \A r \in ReqIds :
        LET rec == reqs[r] IN
        (/\ rec.op = "check-product-name-edit"
         /\ Sequential(r)
         /\ rec.st = "done")
        => rec.resp = IF \E id \in DOMAIN products \ {rec.in.id} :
                            /\ rec.in.name # ""
                            /\ products[id].name = rec.in.name
                            /\ products[id].is_active = 1
                      THEN "exists true" ELSE "exists false"

-----------------------------------------------------------------------------
(* Claims about the product list *)

ListOps == {"products V1", "products V2"}

Rendered(rec) == rec.st = "done" /\ rec.resp = "render products"

\* The products a list request asks for
Matching(rec) ==
    {id \in DOMAIN products :
        /\ products[id].is_active = 1
        /\ Where(products[id], Trim(rec.in.q), rec.in.category_id)}

\* n pages of six hold count items and fewer pages do not; one page at least
IsPageCount(n, count) ==
    /\ n >= 1
    /\ count <= n * 6
    /\ n > 1 => count > (n - 1) * 6

\* C15: a list request for a page below 1 is answered with the items and the
\* totalPages of the request for page 1 with the same filters, and totalPages
\* is max(ceil(matching / 6), 1).
C15_PageBelowOneIsPageOne ==
    \A r1, r2 \in ReqIds :
        LET a == reqs[r1]
            b == reqs[r2]
        IN  (/\ a.op = "products V2" /\ a.st = "done"
             /\ IsNum(a.in.page) /\ a.in.page.v < 1
             /\ b.op = "products V2" /\ Rendered(b)
             /\ b.in.page = Num(1)
             /\ b.in.q = a.in.q /\ b.in.category_id = a.in.category_id)
            => /\ Rendered(a)
               /\ a.loc.products = b.loc.products
               /\ a.loc.totalPages = b.loc.totalPages
               /\ IsPageCount(a.loc.totalPages, Cardinality(Matching(a)))
               /\ IsPageCount(b.loc.totalPages, Cardinality(Matching(b)))

\* Page 0 or -1 and page 1 of seven products have both been rendered: six
\* items of two pages.
C15_Witness ==
    \E r1, r2 \in ReqIds :
        /\ reqs[r1].op = "products V2" /\ Rendered(reqs[r1])
        /\ IsNum(reqs[r1].in.page) /\ reqs[r1].in.page.v < 1
        /\ reqs[r2].op = "products V2" /\ Rendered(reqs[r2])
        /\ reqs[r2].in.page = Num(1)
        /\ reqs[r2].in.q = reqs[r1].in.q
        /\ reqs[r2].in.category_id = reqs[r1].in.category_id
        /\ Len(reqs[r1].loc.products) = 6
        /\ reqs[r1].loc.totalPages = 2

IsAscending(seq) == \A i, j \in DOMAIN seq : i < j => seq[i] < seq[j]

\* C16: every item of a product list is an active product that matches the
\* search text and the category filter, the items are in ascending creation
\* order, and totalPages counts the active matching products.
C16_ListedMatchInOrder ==
    \A r \in ReqIds :
        LET rec == reqs[r] IN
        (rec.op \in ListOps /\ Rendered(rec))
        => /\ Range(rec.loc.products) \subseteq Matching(rec)
           /\ IsAscending(rec.loc.products)
           /\ rec.op = "products V2" =>
                  IsPageCount(rec.loc.totalPages, Cardinality(Matching(rec)))

\* The same of the second generation alone, which it holds of
ListedMatchInOrderV2 ==
    \A r \in ReqIds :
        LET rec == reqs[r] IN
        (rec.op = "products V2" /\ Rendered(rec))
        => /\ Range(rec.loc.products) \subseteq Matching(rec)
           /\ IsAscending(rec.loc.products)
           /\ IsPageCount(rec.loc.totalPages, Cardinality(Matching(rec)))

-----------------------------------------------------------------------------
(* Claims about delete-product *)

DeleteOps == {"deleteproduct V1", "deleteproduct V2"}

\* Request r has deleted a product that existed, on its own
Deleted(r) ==
    /\ reqs[r].op \in DeleteOps
    /\ reqs[r].in.id \in DOMAIN reqs[r].pre.products
    /\ reqs[r].quiet
    /\ reqs[r].st = "done"

\* List request q arrived after request r had ended
ListedAfter(r, q) ==
    /\ r < q
    /\ reqs[q].op \in ListOps
    /\ reqs[q].quiet
    /\ Rendered(reqs[q])

\* C17: after a product is deleted it is in no product list, while its row,
\* marked inactive, all its image rows and all their files are still there.
C17_RetiredProductKept ==
    \A r \in ReqIds :
        Deleted(r) =>
            LET id == reqs[r].in.id
                pre == reqs[r].pre
            IN  /\ \A q \in ReqIds :
                       ListedAfter(r, q) => id \notin Range(reqs[q].loc.products)
                /\ Sequential(r) =>
                      /\ id \in DOMAIN products
                      /\ products[id].is_active = 0
                      /\ ImagesOf(pre.product_images, id)
                             \subseteq DOMAIN product_images
                      /\ pre.files \subseteq files

\* What the handlers do: the product is in no later list because its row is
\* deleted, with its image rows and their files; other products keep theirs.
DeletedProductGone ==
    \A r \in ReqIds :
        Deleted(r) =>
            LET id == reqs[r].in.id
                pre == reqs[r].pre
            IN  /\ \A q \in ReqIds :
                       ListedAfter(r, q) => id \notin Range(reqs[q].loc.products)
                /\ Sequential(r) =>
                      /\ products = Delete(pre.products, {id})
                      /\ product_images =
                             Delete(pre.product_images,
                                    ImagesOf(pre.product_images, id))
                      /\ files = pre.files \ {FilePath(pre.product_images[i].image_url) :
                                                 i \in ImagesOf(pre.product_images, id)}

-----------------------------------------------------------------------------
(* Claims about the record of stock changes *)

\* The sum of the deltas recorded for a product
RECURSIVE RecordedDelta(_, _)
RecordedDelta(log, productId) ==
    IF log = << >> THEN 0
    ELSE (IF Head(log).product_id = productId THEN Head(log).change_amount ELSE 0)
         + RecordedDelta(Tail(log), productId)

\* C18: every change of a product's stock appends one adjustment row that is
\* never changed or removed: for each product the recorded deltas add up to
\* its stock minus its stock at creation.
C18_EveryStockChangeRecorded ==
    Quiescent =>
        \A id \in DOMAIN products :
            RecordedDelta(inventory_adjustments, id)
                = products[id].stock - ColumnDefault.stock

\* What holds of update-stock of the first generation run on its own: it
\* appends one row, whose delta is the new stock minus the old.
UpdateStockRecordsDelta ==
    \A r \in ReqIds :
        LET rec == reqs[r] IN
        (/\ rec.op = "update-stock"
         /\ rec.resp = "success"
         /\ Sequential(r))
        => /\ Len(inventory_adjustments) = Len(rec.pre.adjustments) + 1
           /\ SubSeq(inventory_adjustments, 1, Len(rec.pre.adjustments))
                  = rec.pre.adjustments
           /\ inventory_adjustments[Len(inventory_adjustments)] =
                  [product_id |-> rec.in.productId,
                   change_amount |-> products[rec.in.productId].stock
                        - rec.pre.products[rec.in.productId].stock]

-----------------------------------------------------------------------------
(* Claims about the numbers of an add-product request *)

\* The request has every field and an image, and a negative price or quantity
NegativeNumbers(rec) ==
    /\ rec.op \in AddOps
    /\ ~AddProductInvalid(rec.in)
    /\ IsNum(rec.in.price) /\ IsNum(rec.in.quantity)
    /\ rec.in.price.v < 0 \/ rec.in.quantity.v < 0

\* C19: an add-product request with a negative quantity or a negative price
\* is answered with a validation error and leaves no product row.
C19_NegativeNumbersRejected ==
    \A r \in ReqIds :
        LET rec == reqs[r] IN
        (/\ NegativeNumbers(rec)
         /\ Sequential(r)
         /\ Ended(rec))
        => /\ rec.st = "done"
           /\ rec.resp = RequiredFieldsError
           /\ products = rec.pre.products

\* What the first generation does with a free name: the row is inserted with
\* the numbers as submitted.
NegativeNumbersStored ==
    \A r \in ReqIds :
        LET rec == reqs[r] IN
        (/\ NegativeNumbers(rec)
         /\ rec.op = "addproduct V1"
         /\ \A id \in DOMAIN rec.pre.products :
                rec.pre.products[id].name # rec.in.name
         /\ Sequential(r)
         /\ Ended(rec))
        => /\ rec.resp = "redirect /admin/products"
           /\ \E id \in NewProducts(r) :
                 /\ products[id].price = rec.in.price.v
                 /\ products[id].quantity = rec.in.quantity.v

-----------------------------------------------------------------------------
(* Claims about an edit of a product that does not exist *)

EditsMissingProduct(rec) ==
    /\ rec.op \in EditOps
    /\ \/ rec.in.id \notin DOMAIN rec.pre.products
       \/ rec.pre.products[rec.in.id].is_active # 1

\* C20: an edit-product request for an id that no active product has is not
\* answered as a success and has no effect: no product row changes, no image
\* row is inserted or deleted and no file is unlinked.
C20_EditOfMissingHasNoEffect ==
    \A r \in ReqIds :
        LET rec == reqs[r] IN
        (/\ EditsMissingProduct(rec)
         /\ Sequential(r)
         /\ rec.st = "done"
         /\ queue = << >>)
        => /\ rec.resp # "redirect /admin/products"
           /\ products = rec.pre.products
           /\ product_images = rec.pre.product_images
           /\ rec.pre.files \subseteq files

\* The part of C20 the code keeps: the UPDATE matches no row, so no product
\* row changes.
EditOfMissingChangesNoProduct ==
    \A r \in ReqIds :
        LET rec == reqs[r] IN
        (/\ EditsMissingProduct(rec)
         /\ Sequential(r)
         /\ rec.st = "done"
         /\ queue = << >>)
        => products = rec.pre.products

-----------------------------------------------------------------------------
(* Claims about the names of uploaded files *)

\* C21: no two image rows have the same image_url, whether their files were
\* uploaded in one request or in different requests at one tick of the clock;
\* so no file is referenced by images of two products.
C21_StorageKeysDistinct ==
    \A i, j \in DOMAIN product_images :
        i # j => product_images[i].image_url # product_images[j].image_url

\* What the file names give: two uploads get one name only if their
\* Date.now() is the same and, in the second generation, their random
\* numbers too.
SameKeySameStamp ==
    \A r \in ReqIds :
        LET names == reqs[r].in.files IN
        (reqs[r].op \in AddOps \cup EditOps) =>
            \A i, j \in DOMAIN names :
                (i # j /\ names[i] = names[j]) =>
                    /\ names[i][1] = names[j][1]
                    /\ reqs[r].op \in {"addproduct V2", "editproduct V2"}
                           => names[i][2] = names[j][2]

-----------------------------------------------------------------------------
(* Claims about the categories *)

CategoryOps == {"categories/add", "categories/edit", "categories/reactivate"}

\* The requests ran one after the other: each arrived at an idle connection.
OneAtATime == \A r \in ReqIds : reqs[r].st # "idle" => reqs[r].quiet

UniqueActiveCategoryNames ==
    \A i, j \in DOMAIN categories :
        (/\ i # j
         /\ categories[i].is_active = 1
         /\ categories[j].is_active = 1)
        => ~SameName(categories[i].name, categories[j].name)

-----------------------------------------------------------------------------
(* Claims about concurrent add-product requests *)

\* The product rows with a name
ProductsNamed(name) == {p \in DOMAIN products : products[p].name = name}

\* Two add-product requests with the same name are in progress or have ended
SameNameCreates(r1, r2) ==
    /\ r1 # r2
    /\ reqs[r1].op \in AddOps /\ reqs[r2].op \in AddOps
    /\ reqs[r1].in.name = reqs[r2].in.name

\* C23: when two add-product requests with the same name interleave at their
\* queries (duplicate-name SELECT, then product INSERT), at most one of them
\* inserts a product row; the other gets the duplicate-name error.
C23_SameNameCreatesExclude ==
    \A r1, r2 \in ReqIds :
        SameNameCreates(r1, r2)
        => Cardinality(ProductsNamed(reqs[r1].in.name)) <= 1

\* What holds instead: two rows with one name come only from two requests
\* whose duplicate-name SELECTs both ran before either INSERT, that is from
\* requests of which the later arrived while the connection was busy.
SameNameRowsOnlyInterleaved ==
    \A r1, r2 \in ReqIds :
        (/\ SameNameCreates(r1, r2)
         /\ Cardinality(ProductsNamed(reqs[r1].in.name)) > 1)
        => ~OneAtATime

-----------------------------------------------------------------------------
(* Claims about a failed edit *)

\* C24: if a step of an edit's replacement of the image set fails (image-row
\* delete, image-row insert or cover update), the product's fields, image
\* rows, files and cover are as they were before the edit: no state in which
\* only some of the steps took effect is reached.
C24_FailedEditChangesNothing ==
    \A r \in ReqIds :
        LET rec == reqs[r] IN
        (/\ rec.op \in EditOps
         /\ rec.errors # {}
         /\ Sequential(r)
         /\ Ended(rec)
         /\ queue = << >>)
        => /\ products = rec.pre.products
           /\ product_images = rec.pre.product_images
           /\ rec.pre.files \subseteq files

\* What holds instead: a failed insert of the new image rows adds no image
\* row, while the UPDATE of the fields and the removal of the images picked
\* for removal stay in effect.
FailedEditAddsNoImage ==
    \A r \in ReqIds :
        LET rec == reqs[r] IN
        (/\ rec.op \in EditOps
         /\ rec.errors # {}
         /\ Sequential(r)
         /\ Ended(rec)
         /\ queue = << >>)
        => DOMAIN product_images \subseteq DOMAIN rec.pre.product_images

-----------------------------------------------------------------------------
(* Claims about categories in use *)

RemovalOps == {"categories/edit", "deleteCategory"}

\* The category of the product exists and is active
InActiveCategory(row) ==
    /\ row.category_id \in DOMAIN categories
    /\ categories[row.category_id].is_active = 1

\* C25: deactivating or deleting a category that an active product refers to
\* is rejected or moves those products to another category: no operation
\* leaves an active product whose category is inactive or missing, and none
\* deletes the products.
C25_CategoryInUseKept ==
    /\ \A p \in DOMAIN products :
           products[p].is_active = 1 => InActiveCategory(products[p])
    /\ \A r \in ReqIds :
           reqs[r].op \in RemovalOps
           => DOMAIN reqs[r].pre.products \subseteq DOMAIN products

\* What deleteCategory does keep: run on its own, it leaves no product that
\* refers to the category it deleted.
DeleteCategoryLeavesNoReference ==
    \A r \in ReqIds :
        (/\ reqs[r].op = "deleteCategory"
         /\ Sequential(r)
         /\ Answered(r))
        => /\ reqs[r].in.id \notin DOMAIN categories
           /\ \A p \in DOMAIN products :
                  products[p].category_id # reqs[r].in.id

-----------------------------------------------------------------------------
(* Claims about the product an image row refers to *)

\* C26: in every state reached by create-product, edit-product,
\* delete-product and delete-category operations, every image row refers to
\* a product row that exists.
C26_ImagesReferToProducts ==
    \A i \in DOMAIN product_images :
        product_images[i].product_id \in DOMAIN products

-----------------------------------------------------------------------------
(* Claims about the answer to an add-product request *)

\* C27: every add-product request eventually gets exactly one response (the
\* form with an error or the redirect to the product list), on every path:
\* failed validation, duplicate name, database error and any cover index.
C27_AddProductAnswered ==
    \A r \in ReqIds : (reqs[r].op \in AddOps) ~> Answered(r)

\* What holds instead: a first-generation request with a cover index that
\* names one of its images, arriving at an idle connection with no request
\* after it, is answered.
AddProductV1InRangeAnswered ==
    \A r \in ReqIds :
        (/\ reqs[r].op = "addproduct V1"
         /\ IsNum(reqs[r].in.coverIndex)
         /\ reqs[r].in.coverIndex.v \in 0..(Len(reqs[r].in.files) - 1)
         /\ reqs[r].quiet
         /\ [](\A q \in ReqIds : q > r => reqs[q].st = "idle"))
        ~> Answered(r)

-----------------------------------------------------------------------------
(* Claims about the admin session *)

GuardedOps == {"categories/reactivate", "addproduct V2"}

\* The request got past the guard: it has a query waiting, has stored a
\* file, or has ended otherwise than with the guard's redirect.
PastGuard(r) ==
    \/ Queued(r) # {}
    \/ "files" \in DOMAIN reqs[r].in /\ Range(reqs[r].in.files) # {}
    \/ reqs[r].st = "crashed"
    \/ Answered(r) /\ reqs[r].resp # "redirect /login"

GuardHolds ==
    \A r \in ReqIds :
        (reqs[r].op \in GuardedOps /\ PastGuard(r)) => reqs[r].in.admin # NoAdmin

\* The login request of session sid that is answered in this step with the
\* e-mail of active row admin and the password of that row's hash
LoginSets(sid, admin) ==
    \E r \in ReqIds :
        /\ reqs[r].op = "login" /\ reqs[r].in.sid = sid
        /\ reqs[r].st = "running" /\ reqs'[r].st = "done"
        /\ admin \in DOMAIN admin_users
        /\ admin_users[admin].email = reqs[r].in.email
        /\ admin_users[admin].is_active = 1
        /\ Compare(reqs[r].in.password, admin_users[admin].password_hash)

SessionSetByLogin ==
    \A sid \in SessionIds :
        (sessions'[sid] # sessions[sid] /\ sessions'[sid] # NoAdmin)
        => LoginSets(sid, sessions'[sid])

LogoutClears ==
    \A r \in ReqIds :
        (reqs[r].st = "idle" /\ reqs'[r].op = "logout")
        => sessions'[reqs'[r].in.sid] = NoAdmin

\* C28: no handler of a route registered with ensureAdmin issues a query or
\* a file operation unless the request's session holds an admin; the
\* session's admin is set only by a login whose e-mail matches an
\* admin_users row with is_active = 1 and whose password matches that row's
\* hash, and is cleared by logout.
C28_AdminOnlyBehindLogin ==
    /\ []GuardHolds
    /\ [][SessionSetByLogin /\ LogoutClears]_vars

\* A login succeeded in a session, and a guarded request of that session then
\* got past the guard, while a guarded request of the other session would
\* still be sent to the login page.
C28_Witness ==
    /\ reqs[1].op = "login" /\ reqs[1].resp = "redirect /admin/homepage"
    /\ reqs[2].op = "categories/reactivate"
    /\ reqs[2].in.sid = reqs[1].in.sid
    /\ reqs[2].resp = "redirect /admin/categories"
    /\ \E sid \in SessionIds : ~EnsureAdmin(sid)

-----------------------------------------------------------------------------
(* Claims about the discounts page *)

PageWithinList(page) ==
    /\ page.currentPage >= 1
    /\ \/ (page.currentPage - 1) * pageSize < page.discounts
       \/ page.discounts = 0 /\ page.currentPage = 1

\* C29: in the discounts page script, after any sequence of list reloads
\* (with any list length, the empty list included), previous/next clicks,
\* saves and deletes, currentPage is at least 1 and the displayed page is not
\* empty when the list is not: (currentPage - 1) * pageSize < discounts.length,
\* or discounts.length = 0 and currentPage = 1.
C29_CurrentPageWithinList == PageWithinList(discountsPage)

\* What holds instead: the page is within the list whenever the table shows
\* rows, and after every load of the list.
ShownPageWithinList ==
    discountsPage.rows > 0 => PageWithinList(discountsPage)

-----------------------------------------------------------------------------
(* Claims about the inventory page *)

\* C30: the statistics of the inventory page partition the product list: for
\* all stock values reachable through the stock-update and product-edit
\* operations, inStock + lowStock + outOfStock = total, each product being
\* counted in exactly one of the three classes.
C30_StatsPartitionProducts ==
    \A r \in ReqIds :
        (reqs[r].op = "inventory" /\ Answered(r))
        => LET stats == reqs[r].loc.stats
           IN stats.inStock + stats.lowStock + stats.outOfStock = stats.total

\* What holds instead: no product is counted twice, and the products counted
\* in no class are those with a negative stock.
StatsMissNegativeStock ==
    \A r \in ReqIds :
        (reqs[r].op = "inventory" /\ Answered(r) /\ Sequential(r))
        => LET stats == reqs[r].loc.stats
           IN stats.total - (stats.inStock + stats.lowStock + stats.outOfStock)
              = Cardinality({p \in DOMAIN products : products[p].stock < 0})

====
